---- MODULE Spec2Model ----
(***************************************************************************)
(* Model of the eqWAlizer IPC driver (crates/eqwalizer/src/lib.rs, ipc.rs) *)
(* and of the stub derivation queries it calls (crates/eqwalizer/src/ast/  *)
(* db.rs).                                                                 *)
(***************************************************************************)
EXTENDS Integers, Sequences, FiniteSets, TLC

VARIABLES
    env,          \* inputs of the derivation queries, per module
    pc,           \* position of the driver thread
    caller,       \* who invoked module_diagnostics: "typecheck" | "direct" | "none"
    module,       \* the module the sub-loop is servicing (<<>> when none)
    registry,     \* DbApi handle registry: module -> "none" | "handle"
    lock,         \* TRUE while the Mutex<IpcHandle> guard of the sub-loop is held
    diagnostics,  \* do_typecheck's accumulated EqwalizerDiagnostics
    result,       \* what typecheck / module_diagnostics returned
    pending,      \* the reply under way in the sub-loop
    io,           \* side effects since the last control message was received
    cancelled,    \* the cooperative cancellation signal of the database
    stalled,      \* TRUE once the external process has stopped reading and writing
    diags_memo,   \* the memoized value of the query module_diagnostics, per module
    memo,         \* query database: the memoized result per <<query, module>>
    stack,        \* query database: the queries under way, innermost last
    ran,          \* query database: the checkers run so far, in order
    computed,     \* query database: how often the body of <<query, module>> was executed
    operands,     \* combine: the EqwalizerDiagnostics values at hand
    out,          \* combine: the latest computation and its value
    prev,         \* combine: the computation before it
    source_ast,   \* preprocess: the AST handed to the preprocessor
    once,         \* preprocess: preprocess(source_ast), once computed
    twice,        \* preprocess: preprocess of that, once computed
    panicked,     \* preprocess: TRUE once a call of preprocess has panicked
    payload,      \* send_bytes: the bytes to stream, as their length and generator
    wire,         \* send_bytes: what the call wrote (as slices) and returned, once it ran
    converted,    \* a conversion query on its own: the query, the module, what it returned
    threads       \* concurrent sessions on one database: where each session's thread is

dvars == <<env, pc, caller, module, registry, lock, diagnostics, result, pending, io, cancelled,
           stalled, diags_memo>>
qvars == <<memo, stack, ran, computed>>
cvars == <<operands, out, prev>>
pvars == <<source_ast, once, twice, panicked>>
svars == <<payload, wire>>
avars == <<converted>>
tvars == <<threads>>
nondriver == <<qvars, cvars, pvars, svars, avars, tvars>>
nonquery == <<dvars, cvars, pvars, svars, avars, tvars>>
noncombine == <<dvars, qvars, pvars, svars, avars, tvars>>
nonpreprocess == <<dvars, qvars, cvars, svars, avars, tvars>>
nonsend == <<dvars, qvars, cvars, pvars, avars, tvars>>
nonconvert == <<pc, caller, module, registry, lock, diagnostics, result, pending, io, cancelled,
               stalled, diags_memo, qvars, cvars, pvars, svars, tvars>>
nonthreads == <<env, pc, caller, module, lock, diagnostics, result, pending, io, cancelled,
               stalled, qvars, cvars, pvars, svars, avars>>
vars == <<dvars, qvars, cvars, pvars, svars, avars, tvars>>

-----------------------------------------------------------------------------
(* Strings.  Module names are strings; Rust compares Strings bytewise, so a *)
(* name is given with the bytes it is made of.                              *)

StrBytes == ("a" :> <<97>>) @@ ("ab" :> <<97, 98>>) @@ ("b" :> <<98>>)

RECURSIVE SeqGt(_, _)
SeqGt(x, y) ==
    IF x = <<>> THEN FALSE
    ELSE IF y = <<>> THEN TRUE
    ELSE IF Head(x) # Head(y) THEN Head(x) > Head(y)
    ELSE SeqGt(Tail(x), Tail(y))

StrGt(x, y) == SeqGt(StrBytes[x], StrBytes[y])

Modules == {"a", "b"}

-----------------------------------------------------------------------------
(* Result<T, E>                                                            *)

Ok(v) == [ok |-> TRUE, val |-> v]
Err(e) == [ok |-> FALSE, err |-> e]

(* ast::Error, the variants db.rs constructs or matches on                 *)
ModuleNotFound(m) == [kind |-> "ModuleNotFound", arg |-> <<m>>]
ParseError == [kind |-> "ParseError", arg |-> <<>>]
BEAMNotFound(path) == [kind |-> "BEAMNotFound", arg |-> path]
TypeConversionError(m) == [kind |-> "TypeConversionError", arg |-> m]
ContractivityError(m) == [kind |-> "ContractivityError", arg |-> m]
VarianceCheckError(m) == [kind |-> "VarianceCheckError", arg |-> m]
TransitiveCheckError(m) == [kind |-> "TransitiveCheckError", arg |-> m]

(* Display of ast::Error: the variant and what it carries                  *)
ErrorToString(e) == <<e.kind, e.arg>>

-----------------------------------------------------------------------------
(* Forms and their serialized form.  A form is its ExternalForm variant; a  *)
(* serialized AST holds one byte per form, 0 being no form at all.          *)

NonStubForms == {"Module", "FunDecl", "File", "ElpMetadata", "Behaviour",
                 "EqwalizerNowarnFunction", "EqwalizerUnlimitedRefinement"}
StubForms == {"Export", "TypeDecl", "FunSpec", "RecDecl", "Callback"}
Forms == NonStubForms \cup StubForms

FormCode ==
    ("Module" :> 1) @@ ("FunDecl" :> 2) @@ ("File" :> 3) @@ ("ElpMetadata" :> 4)
    @@ ("Behaviour" :> 5) @@ ("EqwalizerNowarnFunction" :> 6)
    @@ ("EqwalizerUnlimitedRefinement" :> 7) @@ ("Export" :> 8) @@ ("TypeDecl" :> 9)
    @@ ("FunSpec" :> 10) @@ ("RecDecl" :> 11) @@ ("Callback" :> 12)

FormOfCode(c) == CHOOSE f \in Forms : FormCode[f] = c

to_bytes(forms) == [i \in 1..Len(forms) |-> FormCode[forms[i]]]

from_bytes(bytes, stub_only) ==
    IF \E i \in 1..Len(bytes) : \A f \in Forms : FormCode[f] # bytes[i]
    THEN Err(ParseError)
    ELSE Ok([i \in 1..Len(bytes) |-> FormOfCode(bytes[i])])

(* ast::from_beam: the abstract forms embedded in a compiled object         *)
ast_from_beam(bytes) == from_bytes(bytes, TRUE)

-----------------------------------------------------------------------------
(* The derivation queries of EqwalizerASTDatabase.  db gives, per module:   *)
(*   erl      what EqwalizerErlASTStorage::get_erl_ast_bytes returns        *)
(*   file     the module index has a file for the module                    *)
(*   app_type "None" (no app data) | "App" | "Otp"                          *)
(*   ebin     the app has an ebin directory                                 *)
(*   beam     the beam file: [readable, bytes]                              *)
(*   fault    the first checker that rejects the module's stub, or "none"   *)

Some(v) == [some |-> TRUE, val |-> v]
None == [some |-> FALSE]

get_erl_ast_bytes(db, m) == db[m].erl

from_beam_AnyOtp(db, m) == db[m].app_type = "Otp"

from_beam(db, m) ==
    IF db[m].file
    THEN IF db[m].app_type # "None" THEN db[m].app_type = "Otp" ELSE FALSE
    ELSE FALSE

converted_ast(db, m) ==
    LET ast == get_erl_ast_bytes(db, m)
    IN  IF ~ast.ok THEN ast ELSE from_bytes(ast.val, FALSE)

is_non_stub_form_KeepExports(form) == form \in NonStubForms \cup {"Export"}

is_non_stub_form(form) == form \in NonStubForms

converted_ast_bytes(db, m) ==
    LET ast == converted_ast(db, m)
    IN  IF ~ast.ok THEN ast ELSE Ok(to_bytes(SelectSeq(ast.val, is_non_stub_form)))

beam_path(db, m) ==
    IF ~db[m].file THEN None
    ELSE IF db[m].app_type = "None" THEN None
    ELSE IF ~db[m].ebin THEN None
    ELSE Some(<<"ebin", m, ".beam">>)

converted_stub(db, m) ==
    IF from_beam(db, m)
    THEN LET path == beam_path(db, m)
         IN  IF path.some
             THEN IF db[m].beam.readable
                  THEN ast_from_beam(db[m].beam.bytes)
                  ELSE Err(BEAMNotFound(path.val))
             ELSE Err(ModuleNotFound(m))
    ELSE LET ast == get_erl_ast_bytes(db, m)
         IN  IF ~ast.ok THEN ast ELSE from_bytes(ast.val, TRUE)

(* ModuleStub: the module and the declarations that went into its buckets   *)
is_stub_form(form) == form \in StubForms
ModuleStub_new(m) == [module |-> m, decls |-> <<>>]
ModuleStub_to_bytes(stub) == <<123>> \o StrBytes[stub.module] \o to_bytes(stub.decls) \o <<125>>

(* The four checkers: each accepts the stub unless the module's fault names it *)
StubExpander_expand(db, m, forms) ==
    IF db[m].fault = "expand" THEN Err(<<m>>)
    ELSE Ok([ModuleStub_new(m) EXCEPT !.decls = SelectSeq(forms, is_stub_form)])
StubContractivityChecker_check(db, m, stub) ==
    IF db[m].fault = "contractive" THEN Err(<<m>>) ELSE Ok(stub)
VarianceChecker_check(db, m, stub) ==
    IF db[m].fault = "variance" THEN Err(<<m>>) ELSE Ok(stub)
TransitiveChecker_check(db, m, stub) ==
    IF db[m].fault = "transitive" THEN Err(<<m>>) ELSE Ok(stub)

(* Each stage takes the result of the stage before it (the `?` on the query *)
(* it calls), runs its checker on the stub and maps the checker's error     *)
expanded_stub_from(db, m, stub) ==
    IF ~stub.ok THEN stub
    ELSE LET r == StubExpander_expand(db, m, stub.val)
         IN  IF r.ok THEN r ELSE Err(TypeConversionError(r.err))

expanded_stub(db, m) == expanded_stub_from(db, m, converted_stub(db, m))

contractive_stub_from(db, m, stub) ==
    IF ~stub.ok THEN stub
    ELSE LET r == StubContractivityChecker_check(db, m, stub.val)
         IN  IF r.ok THEN r ELSE Err(ContractivityError(r.err))

contractive_stub(db, m) == contractive_stub_from(db, m, expanded_stub(db, m))

covariant_stub_from_Rewrap(db, m, stub) ==
    IF ~stub.ok THEN Err(VarianceCheckError(<<m>>))
    ELSE LET r == VarianceChecker_check(db, m, stub.val)
         IN  IF r.ok THEN r ELSE Err(VarianceCheckError(r.err))

covariant_stub_from(db, m, stub) ==
    IF ~stub.ok THEN stub
    ELSE LET r == VarianceChecker_check(db, m, stub.val)
         IN  IF r.ok THEN r ELSE Err(VarianceCheckError(r.err))

covariant_stub(db, m) == covariant_stub_from(db, m, contractive_stub(db, m))

transitive_stub_from(db, m, stub) ==
    IF ~stub.ok THEN stub
    ELSE LET r == TransitiveChecker_check(db, m, stub.val)
         IN  IF r.ok THEN r ELSE Err(TransitiveCheckError(r.err))

transitive_stub(db, m) == transitive_stub_from(db, m, covariant_stub(db, m))

transitive_stub_bytes_from(stub) ==
    IF ~stub.ok THEN stub ELSE Ok(ModuleStub_to_bytes(stub.val))

transitive_stub_bytes(db, m) == transitive_stub_bytes_from(transitive_stub(db, m))

(* The memoized queries of the stub chain, none of them computed yet *)
StubQueries == {"converted_stub", "expanded_stub", "contractive_stub",
                "covariant_stub", "transitive_stub", "transitive_stub_bytes"}

QueryKeys == StubQueries \X Modules

NoMemo == [k \in QueryKeys |-> None]

(* The inputs a module may have *)
SrcOk == Ok(<<1, 9, 2>>)
AppModule(erl, fault) ==
    [erl |-> erl, file |-> erl.ok, app_type |-> "App", ebin |-> TRUE,
     beam |-> [readable |-> FALSE, bytes |-> <<>>], fault |-> fault]
OtpModule(ebin, readable) ==
    [erl |-> SrcOk, file |-> TRUE, app_type |-> "Otp", ebin |-> ebin,
     beam |-> [readable |-> readable, bytes |-> <<1, 10>>], fault |-> "none"]

ModuleEnvs(m) ==
    { AppModule(SrcOk, f) : f \in {"none", "expand", "contractive", "variance", "transitive"} }
    \cup { AppModule(Err(ModuleNotFound(m)), "none"),
           AppModule(Err(ParseError), "none"),
           AppModule(Ok(<<1, 0>>), "none"),
           AppModule(Ok(<<9>>), "none") }
    \cup { OtpModule(TRUE, TRUE), OtpModule(TRUE, FALSE), OtpModule(FALSE, FALSE) }

-----------------------------------------------------------------------------
(* EqwalizerDiagnostics                                                     *)

EmptyMap == [k \in {} |-> <<>>]
Diagnostics(errors, type_info) ==
    [tag |-> "Diagnostics", errors |-> errors, type_info |-> type_info]
NoAst(m) == [tag |-> "NoAst", module |-> m]
DiagError(msg) == [tag |-> "Error", msg |-> msg]
DiagDefault == Diagnostics(EmptyMap, EmptyMap)

(* HashMap::extend: the entries of the other map are inserted, replacing    *)
extend(map, other) ==
    [k \in DOMAIN map \cup DOMAIN other |-> IF k \in DOMAIN other THEN other[k] ELSE map[k]]

combine_Replace(self, other) ==
    IF self.tag = "NoAst"
    THEN IF other.tag = "NoAst"
         THEN IF StrGt(other.module, self.module) THEN self ELSE other
         ELSE self
    ELSE IF self.tag = "Error" THEN self
    ELSE other

combine_KeepDiagnostics(self, other) ==
    IF self.tag = "NoAst"
    THEN IF other.tag = "NoAst"
         THEN IF StrGt(other.module, self.module) THEN self ELSE other
         ELSE self
    ELSE IF self.tag = "Error" THEN self
    ELSE IF other.tag = "Diagnostics"
         THEN Diagnostics(extend(self.errors, other.errors),
                          extend(self.type_info, other.type_info))
         ELSE self

combine_FirstNoAst(self, other) ==
    IF self.tag = "NoAst" THEN self
    ELSE IF self.tag = "Error" THEN self
    ELSE IF other.tag = "Diagnostics"
         THEN Diagnostics(extend(self.errors, other.errors),
                          extend(self.type_info, other.type_info))
         ELSE other

combine_DropTypeInfo(self, other) ==
    IF self.tag = "NoAst"
    THEN IF other.tag = "NoAst"
         THEN IF StrGt(other.module, self.module) THEN self ELSE other
         ELSE self
    ELSE IF self.tag = "Error" THEN self
    ELSE IF other.tag = "Diagnostics"
         THEN Diagnostics(extend(self.errors, other.errors), self.type_info)
         ELSE other

combine(self, other) ==
    IF self.tag = "NoAst"
    THEN IF other.tag = "NoAst"
         THEN IF StrGt(other.module, self.module) THEN self ELSE other
         ELSE self
    ELSE IF self.tag = "Error" THEN self
    ELSE IF other.tag = "Diagnostics"
         THEN Diagnostics(extend(self.errors, other.errors),
                          extend(self.type_info, other.type_info))
         ELSE other

-----------------------------------------------------------------------------
(* ipc.rs: the messages and the channel                                     *)

EnteringModule(m) == [tag |-> "EnteringModule", module |-> m]
GetAstBytes(m, format) == [tag |-> "GetAstBytes", module |-> m, format |-> format]
EqwalizingStart(m) == [tag |-> "EqwalizingStart", module |-> m]
EqwalizingDone(m) == [tag |-> "EqwalizingDone", module |-> m]
Dependencies(ms) == [tag |-> "Dependencies", modules |-> ms]
Done(d, t) == [tag |-> "Done", diagnostics |-> d, type_info |-> t]

ELPEnteringModule == [tag |-> "ELPEnteringModule"]
ELPExitingModule == [tag |-> "ELPExitingModule"]
GetAstBytesReply(len) == [tag |-> "GetAstBytesReply", ast_bytes_len |-> len]
CannotCompleteRequest == [tag |-> "CannotCompleteRequest"]

EqWAlizerASTFormat == {"ConvertedForms", "TransitiveStub"}

(* What the external process may write on a line *)
DonePayloads ==
    { Done(EmptyMap, EmptyMap),
      Done("a" :> <<"d1">>, "a" :> <<"t1">>),
      Done("a" :> <<"d2">>, EmptyMap),
      Done("b" :> <<"d1">>, "b" :> <<"t1">>) }
MsgFromEqWAlizer ==
    { EnteringModule(m) : m \in Modules }
    \cup { GetAstBytes(m, f) : m \in Modules, f \in EqWAlizerASTFormat }
    \cup { EqwalizingStart(m) : m \in Modules }
    \cup { EqwalizingDone(m) : m \in Modules }
    \cup { Dependencies(ms) : ms \in {<<>>, <<"a">>, <<"b", "a">>} }
    \cup DonePayloads

(* A line read from the process: a message, text that is no message, or a   *)
(* failed (or timed out) read                                               *)
Malformed == [tag |-> "?"]
BlankLine == [tag |-> ""]
ReadFailed == [tag |-> "io::Error"]
Lines == MsgFromEqWAlizer \cup {Malformed, ReadFailed}

(* anyhow::Error: the chain of contexts, outermost first; Display shows the *)
(* outermost context, Debug the chain                                      *)
Display(err) == Head(err)
Debug(err) == <<"Debug">> \o err

receive_line(line) ==
    IF line = ReadFailed THEN Err(<< <<"failed read_line from eqwalizer stdout">> >>) ELSE Ok(line)

with_context(r, ctx) == IF r.ok THEN r ELSE Err(<<ctx>> \o r.err)

receive(line) ==
    LET buf == with_context(receive_line(line), <<"receiving message">>)
    IN  IF ~buf.ok THEN buf
        ELSE IF buf.val \in MsgFromEqWAlizer THEN Ok(buf.val)
        ELSE Err(<< <<"parsing for eqwalizer">>, <<"serde_json::Error">> >>)

receive_newline(line) ==
    LET buf == with_context(receive_line(line), <<"receiving newline">>)
    IN  IF ~buf.ok THEN buf ELSE Ok(<<>>)

Sent(msg) == [op |-> "send", msg |-> msg]
Received(msg) == [op |-> "recv", msg |-> msg]
ReceivedNewline == [op |-> "recv_newline"]
Wrote(chunk) == [op |-> "write", bytes |-> chunk]
Flushed == [op |-> "flush"]
Called(what, m) == [op |-> what, module |-> m]

(* IpcHandle::send: the events of a send that succeeds, and the error of one *)
(* that does not                                                             *)
send(msg, works) ==
    IF works THEN [res |-> Ok(<<>>), events |-> <<Sent(msg)>>]
    ELSE [res |-> Err(<< <<"writing message", msg.tag>>, <<"io::Error">> >>), events |-> <<>>]

chunk_size == 65536

RECURSIVE chunks(_, _)
chunks(msg, size) ==
    IF msg = <<>> THEN <<>>
    ELSE IF Len(msg) <= size THEN <<msg>>
    ELSE <<SubSeq(msg, 1, size)>> \o chunks(SubSeq(msg, size + 1, Len(msg)), size)

send_bytes_FlushEachChunk(msg, written) ==
    LET cs == chunks(msg, chunk_size)
        done == IF written > Len(cs) THEN Len(cs) ELSE written
        writes == [i \in 1..(2 * done) |-> IF i % 2 = 1 THEN Wrote(cs[(i + 1) \div 2]) ELSE Flushed]
    IN  IF written > Len(cs)
        THEN [res |-> Ok(<<>>), events |-> writes \o <<Flushed>>]
        ELSE [res |-> Err(<< <<"writing bytes chunk">>, <<"io::Error">> >>), events |-> writes]

(* IpcHandle::send_bytes: written is how many steps (chunk writes, then the *)
(* flush) succeed before one fails                                          *)
send_bytes(msg, written) ==
    LET cs == chunks(msg, chunk_size)
        done == IF written > Len(cs) THEN Len(cs) ELSE written
        writes == [i \in 1..done |-> Wrote(cs[i])]
    IN  IF written > Len(cs)
        THEN [res |-> Ok(<<>>), events |-> writes \o <<Flushed>>]
        ELSE IF written = Len(cs)
        THEN [res |-> Err(<< <<"flushing bytes of size">>, <<"io::Error">> >>), events |-> writes]
        ELSE [res |-> Err(<< <<"writing bytes chunk">>, <<"io::Error">> >>), events |-> writes]

-----------------------------------------------------------------------------
(* lib.rs: the driver                                                       *)

(* how many steps of send_bytes may succeed before one fails *)
MaxWritten == 2

NoPending == [kind |-> "none"]

IsTerminal_OnlyError(d) == d.tag = "Error"
IsTerminal_Never(d) == FALSE

IsTerminal_OnlyNoAst(d) == d.tag = "NoAst"

(* do_typecheck, lines 321-326: the results that end the session *)
IsTerminal(d) == d.tag \in {"Error", "NoAst"}

(* DbApi::module_ipc_handle: what set_module_ipc_handle stored last for m *)
module_ipc_handle(reg, m) == IF reg[m] = "none" THEN None ELSE Some(reg[m])

LookupHandle_Any(reg, m) == Ok("handle")

(* get_module_diagnostics, lines 372-377 *)
LookupHandle(reg, m) ==
    IF module_ipc_handle(reg, m).some THEN Ok(module_ipc_handle(reg, m).val)
    ELSE Err(<< <<"no eqWAlizer handle for module ", m>> >>)

module_diagnostics_Swallow(m, res) == IF res.ok THEN res.val ELSE DiagDefault

(* module_diagnostics, lines 355-364: what the query returns for the        *)
(* Result of get_module_diagnostics                                         *)
module_diagnostics(m, res) ==
    IF res.ok THEN res.val
    ELSE DiagError(<<"eqWAlizing module ", m, ":\n", Display(res.err)>>)

(* The width of u32 in bits, scaled down so that a buffer may be longer    *)
(* than the greatest u32                                                    *)
U32Bits == 3
u32_MAX == 2^U32Bits - 1

try_into_u32_Wrapping(n) == Ok(n % (u32_MAX + 1))

(* usize to u32 by try_into, lib.rs line 406 *)
try_into_u32(n) ==
    IF n <= u32_MAX THEN Ok(n)
    ELSE Err(<< <<"out of range integral type conversion attempted">> >>)

(* get_module_diagnostics, lines 390-399 *)
AstFor(db, msg) ==
    IF msg.format = "ConvertedForms" THEN converted_ast_bytes(db, msg.module)
    ELSE transitive_stub_bytes(db, msg.module)

GetAstBytesReplyFor_WrongLen(m, ast) ==
    IF ast.ok
    THEN [kind |-> "bytes", reply |-> GetAstBytesReply(Len(ast.val) + 1), bytes |-> ast.val]
    ELSE IF ast.err.kind = "ModuleNotFound"
    THEN [kind |-> "empty", reply |-> GetAstBytesReply(0)]
    ELSE IF ast.err.kind = "ParseError"
    THEN [kind |-> "return", reply |-> CannotCompleteRequest, ret |-> NoAst(m)]
    ELSE [kind |-> "return", reply |-> CannotCompleteRequest,
          ret |-> DiagError(ErrorToString(ast.err))]

GetAstBytesReplyFor_NoEmptyReply(m, ast) ==
    IF ast.ok
    THEN [kind |-> "bytes", reply |-> GetAstBytesReply(Len(ast.val)), bytes |-> ast.val]
    ELSE IF ast.err.kind = "ParseError"
    THEN [kind |-> "return", reply |-> CannotCompleteRequest, ret |-> NoAst(m)]
    ELSE [kind |-> "return", reply |-> CannotCompleteRequest,
          ret |-> DiagError(ErrorToString(ast.err))]

GetAstBytesReplyFor_NoParseArm(m, ast) ==
    IF ast.ok
    THEN [kind |-> "bytes", reply |-> GetAstBytesReply(Len(ast.val)), bytes |-> ast.val]
    ELSE IF ast.err.kind = "ModuleNotFound"
    THEN [kind |-> "empty", reply |-> GetAstBytesReply(0)]
    ELSE [kind |-> "return", reply |-> CannotCompleteRequest,
          ret |-> DiagError(ErrorToString(ast.err))]

GetAstBytesReplyFor_AllNoAst(m, ast) ==
    IF ast.ok
    THEN [kind |-> "bytes", reply |-> GetAstBytesReply(Len(ast.val)), bytes |-> ast.val]
    ELSE IF ast.err.kind = "ModuleNotFound"
    THEN [kind |-> "empty", reply |-> GetAstBytesReply(0)]
    ELSE [kind |-> "return", reply |-> CannotCompleteRequest, ret |-> NoAst(m)]

(* get_module_diagnostics, lines 400-446: the reply to GetAstBytes{m}, what *)
(* follows it, and the value the sub-loop returns after it, if it returns   *)
GetAstBytesReplyFor(m, ast) ==
    IF ast.ok
    THEN LET ast_bytes_len == try_into_u32(Len(ast.val))
         IN  IF ast_bytes_len.ok
             THEN [kind |-> "bytes", reply |-> GetAstBytesReply(ast_bytes_len.val),
                   bytes |-> ast.val]
             ELSE [kind |-> "fail", err |-> ast_bytes_len.err]
    ELSE IF ast.err.kind = "ModuleNotFound"
    THEN [kind |-> "empty", reply |-> GetAstBytesReply(0)]
    ELSE IF ast.err.kind = "ParseError"
    THEN [kind |-> "return", reply |-> CannotCompleteRequest, ret |-> NoAst(m)]
    ELSE [kind |-> "return", reply |-> CannotCompleteRequest,
          ret |-> DiagError(ErrorToString(ast.err))]

TopDone_Merged(acc, msg) == combine(acc, Diagnostics(msg.diagnostics, msg.type_info))

(* do_typecheck, line 329-331: the value returned on a top-level Done *)
TopDone(acc, msg) == acc

ModuleDone_KeepLock(who, m, reg, diags, log) ==
    LET merged == combine(diagnostics, diags)
    IN  /\ lock' = lock
        /\ pending' = NoPending
        /\ io' = log
        /\ module' = m
        /\ caller' = who
        /\ diags_memo' = [diags_memo EXCEPT ![m] = Some(diags)]
        /\ UNCHANGED env
        /\ IF who = "direct"
           THEN /\ pc' = "query_done"
                /\ result' = Some(diags)
                /\ registry' = reg
                /\ UNCHANGED diagnostics
           ELSE /\ registry' = [reg EXCEPT ![m] = "none"]
                /\ diagnostics' = merged
                /\ IF IsTerminal(merged)
                   THEN pc' = "returned" /\ result' = Some(merged)
                   ELSE pc' = "top_exit_send" /\ UNCHANGED result

(* The query module_diagnostics(m) gives diags, computed or memoized, to who *)
(* called it; for do_typecheck lines 319-327 follow                         *)
ModuleDone(who, m, reg, diags, log) ==
    LET merged == combine(diagnostics, diags)
    IN  /\ lock' = FALSE
        /\ pending' = NoPending
        /\ io' = log
        /\ module' = m
        /\ caller' = who
        /\ diags_memo' = [diags_memo EXCEPT ![m] = Some(diags)]
        /\ UNCHANGED env
        /\ IF who = "direct"
           THEN /\ pc' = "query_done"
                /\ result' = Some(diags)
                /\ registry' = reg
                /\ UNCHANGED diagnostics
           ELSE /\ registry' = [reg EXCEPT ![m] = "none"]
                /\ diagnostics' = merged
                /\ IF IsTerminal(merged)
                   THEN pc' = "returned" /\ result' = Some(merged)
                   ELSE pc' = "top_exit_send" /\ UNCHANGED result

(* The sub-loop for m returns res: module_diagnostics makes its value of    *)
(* it, and the database memoizes the value                                  *)
ModuleReturn(who, m, reg, res, log) == ModuleDone(who, m, reg, module_diagnostics(m, res), log)

EnterSubLoop_IgnoreMemo(who, m, reg, log) ==
    IF LookupHandle(reg, m).ok
    THEN /\ pc' = "sub_enter_send"
         /\ caller' = who
         /\ module' = m
         /\ registry' = reg
         /\ lock' = TRUE
         /\ io' = log
         /\ UNCHANGED <<env, diags_memo, diagnostics, result, pending>>
    ELSE ModuleReturn(who, m, reg, LookupHandle(reg, m), log)

EnterSubLoop_NoLock(who, m, reg, log) ==
    IF diags_memo[m].some
    THEN ModuleDone(who, m, reg, diags_memo[m].val, log)
    ELSE IF LookupHandle(reg, m).ok
    THEN /\ pc' = "sub_enter_send"
         /\ caller' = who
         /\ module' = m
         /\ registry' = reg
         /\ lock' = FALSE
         /\ io' = log
         /\ UNCHANGED <<env, diags_memo, diagnostics, result, pending>>
    ELSE ModuleReturn(who, m, reg, LookupHandle(reg, m), log)

(* db.module_diagnostics(m) is called, lines 176-186: a derived query of    *)
(* the database, whose memoized value is returned when there is one; with   *)
(* none, the body runs: get_module_diagnostics looks the handle up and      *)
(* locks it                                                                 *)
EnterSubLoop(who, m, reg, log) ==
    IF diags_memo[m].some
    THEN ModuleDone(who, m, reg, diags_memo[m].val, log)
    ELSE IF LookupHandle(reg, m).ok
    THEN /\ pc' = "sub_enter_send"
         /\ caller' = who
         /\ module' = m
         /\ registry' = reg
         /\ lock' = TRUE
         /\ io' = log
         /\ UNCHANGED <<env, diags_memo, diagnostics, result, pending>>
    ELSE ModuleReturn(who, m, reg, LookupHandle(reg, m), log)

(* typecheck returns d *)
Return(d, log) ==
    /\ pc' = "returned"
    /\ result' = Some(d)
    /\ io' = log
    /\ UNCHANGED <<env, diags_memo, caller, module, registry, lock, diagnostics, pending>>

Goto(p, log) ==
    /\ pc' = p
    /\ io' = log
    /\ UNCHANGED <<env, diags_memo, caller, module, registry, lock, diagnostics, result, pending>>

(* No typecheck under way *)
DriverIdle ==
    /\ pc = "idle"
    /\ caller = "none"
    /\ module = ""
    /\ registry = [m \in Modules |-> "none"]
    /\ lock = FALSE
    /\ diagnostics = DiagDefault
    /\ result = None
    /\ pending = NoPending
    /\ io = <<>>
    /\ cancelled = FALSE
    /\ stalled = FALSE
    /\ diags_memo = [m \in Modules |-> None]

(* No conversion query called *)
ConvertIdle == converted = [some |-> FALSE]
ThreadsIdle == threads = <<>>

(* No query computed or under way *)
QueryIdle ==
    /\ memo = NoMemo
    /\ stack = <<>>
    /\ ran = <<>>
    /\ computed = [k \in QueryKeys |-> 0]

(* No values to combine *)
CombineIdle ==
    /\ operands = <<>>
    /\ out = None
    /\ prev = None

(* No AST to preprocess *)
PreprocessIdle ==
    /\ source_ast = <<>>
    /\ once = None
    /\ twice = None
    /\ panicked = FALSE

(* No bytes to stream *)
SendIdle ==
    /\ payload = [len |-> 0, seed |-> 0]
    /\ wire = None

Init ==
    /\ env \in [Modules -> UNION {ModuleEnvs(m) : m \in Modules}]
    /\ \A m \in Modules : env[m] \in ModuleEnvs(m)
    /\ \E m \in Modules : env[m] = AppModule(SrcOk, "none")
    /\ DriverIdle
    /\ ConvertIdle
    /\ ThreadsIdle
    /\ QueryIdle
    /\ CombineIdle
    /\ PreprocessIdle
    /\ SendIdle

ReadLine_NoTimeout(lines, stall) == IF stall THEN {} ELSE lines

(* TimeoutReader, ipc.rs 138: what a read may give; once the process has     *)
(* stalled there is nothing to read and the read fails at its timeout       *)
ReadLine(lines, stall) == IF stall THEN {ReadFailed} ELSE lines

(* Eqwalizer::typecheck, lines 275-291 *)
Typecheck(exe) ==
    /\ pc = "idle"
    /\ UNCHANGED nondriver
    /\ UNCHANGED <<cancelled, stalled>>
    /\ IF exe THEN Goto("spawn", <<>>) ELSE Return(DiagDefault, <<>>)

(* cmd.spawn(), ipc.rs 95: a child, or the kind of the io::Error *)
SpawnOutcomes == {"ok", "ExecutableFileBusy", "NotFound", "PermissionDenied"}

Spawned(outcome) == [op |-> "spawn", res |-> outcome]
Slept == [op |-> "sleep"]

(* how many times in a row the executable may be found busy *)
MaxBusy == 2

Spawn_NoRetry(outcome) ==
    /\ pc = "spawn"
    /\ UNCHANGED nondriver
    /\ IF outcome = "ok"
       THEN /\ pc' = "top_check"
            /\ diagnostics' = DiagDefault
            /\ io' = io \o <<Spawned(outcome)>>
            /\ UNCHANGED <<env, diags_memo, caller, module, registry, lock, result, pending,
                           cancelled, stalled>>
       ELSE /\ UNCHANGED <<cancelled, stalled>>
            /\ Return(DiagError(Debug(<< <<"starting eqWAlizer process">>, <<"spawn error">> >>)),
                      io \o <<Spawned(outcome)>>)

(* do_typecheck, lines 306-310, with IpcHandle::from_command and            *)
(* IpcHandle::spawn_cmd, ipc.rs 90-116: one turn of its loop                *)
Spawn(outcome) ==
    /\ pc = "spawn"
    /\ UNCHANGED nondriver
    /\ CASE outcome = "ok" ->
              /\ pc' = "top_check"
              /\ diagnostics' = DiagDefault
              /\ io' = io \o <<Spawned(outcome)>>
              /\ UNCHANGED <<env, diags_memo, caller, module, registry, lock, result, pending,
                             cancelled, stalled>>
         [] outcome = "ExecutableFileBusy" ->
              /\ Len(io) < 2 * MaxBusy
              /\ UNCHANGED <<cancelled, stalled>>
              /\ Goto("spawn", io \o <<Spawned(outcome), Slept>>)
         [] OTHER ->
              /\ UNCHANGED <<cancelled, stalled>>
              /\ Return(DiagError(Debug(<< <<"starting eqWAlizer process">>, <<"spawn error">> >>)),
                        io \o <<Spawned(outcome)>>)

unwind_if_cancelled_Never(signal) == FALSE

(* db.unwind_if_cancelled(), lines 312 and 381: whether the caller is unwound *)
unwind_if_cancelled(signal) == signal

(* do_typecheck, line 312 *)
TopCheck ==
    /\ pc = "top_check"
    /\ UNCHANGED nondriver
    /\ UNCHANGED <<cancelled, stalled>>
    /\ IF unwind_if_cancelled(cancelled) THEN Goto("unwound", io) ELSE Goto("top_recv", io)

TopReceive_Strict(line) ==
    /\ pc = "top_recv"
    /\ UNCHANGED nondriver
    /\ UNCHANGED <<cancelled, stalled>>
    /\ LET msg == receive(line)
           log == <<Received(line)>>
       IN  IF ~msg.ok THEN Return(DiagError(Debug(msg.err)), log)
           ELSE IF msg.val.tag = "EnteringModule"
           THEN EnterSubLoop("typecheck", msg.val.module,
                             [registry EXCEPT ![msg.val.module] = "handle"], log)
           ELSE IF msg.val.tag = "Done" THEN Return(TopDone(diagnostics, msg.val), log)
           ELSE Return(DiagError(<<"unexpected message">>), log)

(* do_typecheck, lines 313-338 up to the next blocking call *)
TopReceive(line) ==
    /\ pc = "top_recv"
    /\ UNCHANGED nondriver
    /\ UNCHANGED <<cancelled, stalled>>
    /\ LET msg == receive(line)
           log == <<Received(line)>>
       IN  IF ~msg.ok THEN Return(DiagError(Debug(msg.err)), log)
           ELSE IF msg.val.tag = "EnteringModule"
           THEN EnterSubLoop("typecheck", msg.val.module,
                             [registry EXCEPT ![msg.val.module] = "handle"], log)
           ELSE IF msg.val.tag = "Done" THEN Return(TopDone(diagnostics, msg.val), log)
           ELSE Goto("top_check", log)

(* do_typecheck, line 327 *)
TopSendExiting(works) ==
    /\ pc = "top_exit_send"
    /\ UNCHANGED nondriver
    /\ UNCHANGED <<cancelled, stalled>>
    /\ LET s == send(ELPExitingModule, works)
       IN  IF s.res.ok THEN Goto("top_check", io \o s.events)
           ELSE Return(DiagError(Debug(s.res.err)), io \o s.events)

(* The query module_diagnostics(m) invoked by another caller than           *)
(* do_typecheck, in a revision of its own                                   *)
DirectQuery(m) ==
    /\ pc \in {"idle", "unwound"}
    /\ UNCHANGED nondriver
    /\ cancelled' = FALSE
    /\ UNCHANGED stalled
    /\ EnterSubLoop("direct", m, registry, <<Called("module_diagnostics", m)>>)

(* get_module_diagnostics, line 379 *)
SubSendEntering(works) ==
    /\ pc = "sub_enter_send"
    /\ UNCHANGED nondriver
    /\ UNCHANGED <<cancelled, stalled>>
    /\ LET s == send(ELPEnteringModule, works)
       IN  IF s.res.ok THEN Goto("sub_check", io \o s.events)
           ELSE ModuleReturn(caller, module, registry, s.res, io \o s.events)

(* get_module_diagnostics, line 381: unwinding drops the guard and skips     *)
(* everything that follows the call of module_diagnostics in do_typecheck    *)
SubCheck ==
    /\ pc = "sub_check"
    /\ UNCHANGED nondriver
    /\ UNCHANGED <<cancelled, stalled>>
    /\ IF unwind_if_cancelled(cancelled)
       THEN /\ pc' = "unwound"
            /\ lock' = FALSE
            /\ UNCHANGED <<env, diags_memo, caller, module, registry, diagnostics, result, pending, io>>
       ELSE Goto("sub_recv", io)

SubReceive_PrefetchFails(line) ==
    /\ pc = "sub_recv"
    /\ UNCHANGED nondriver
    /\ UNCHANGED <<cancelled, stalled>>
    /\ LET msg == receive(line)
           log == <<Received(line)>>
       IN  IF ~msg.ok THEN ModuleReturn(caller, module, registry, msg, log)
           ELSE CASE msg.val.tag = "GetAstBytes" ->
                     LET ast == AstFor(env, msg.val)
                         log2 == log \o <<Called(msg.val.format, msg.val.module)>>
                         reply == GetAstBytesReplyFor(msg.val.module, ast)
                     IN  IF reply.kind = "fail"
                         THEN ModuleReturn(caller, module, registry, Err(reply.err), log2)
                         ELSE /\ pc' = "sub_reply_send"
                              /\ pending' = reply
                              /\ io' = log2
                              /\ UNCHANGED <<env, diags_memo, caller, module, registry, lock,
                                             diagnostics, result>>
                  [] msg.val.tag = "EqwalizingStart" ->
                     Goto("sub_check", log \o <<Called("eqwalizing_start", msg.val.module)>>)
                  [] msg.val.tag = "EqwalizingDone" ->
                     Goto("sub_check", log \o <<Called("eqwalizing_done", msg.val.module)>>)
                  [] msg.val.tag = "Done" ->
                     ModuleReturn(caller, module, registry,
                                  Ok(Diagnostics(msg.val.diagnostics, msg.val.type_info)), log)
                  [] msg.val.tag = "Dependencies" ->
                     LET log2 == log \o [i \in 1..Len(msg.val.modules) |->
                                            Called("TransitiveStub", msg.val.modules[i])]
                         failed == { i \in 1..Len(msg.val.modules) :
                                       ~transitive_stub_bytes(env, msg.val.modules[i]).ok }
                     IN  IF failed = {} THEN Goto("sub_check", log2)
                         ELSE ModuleReturn(caller, module, registry,
                                           Err(<< <<"prefetch">> >>), log2)
                  [] OTHER -> Goto("sub_check", log)

(* get_module_diagnostics, lines 382-475 up to the next blocking call *)
SubReceive(line) ==
    /\ pc = "sub_recv"
    /\ UNCHANGED nondriver
    /\ UNCHANGED <<cancelled, stalled>>
    /\ LET msg == receive(line)
           log == <<Received(line)>>
       IN  IF ~msg.ok THEN ModuleReturn(caller, module, registry, msg, log)
           ELSE CASE msg.val.tag = "GetAstBytes" ->
                     LET ast == AstFor(env, msg.val)
                         log2 == log \o <<Called(msg.val.format, msg.val.module)>>
                         reply == GetAstBytesReplyFor(msg.val.module, ast)
                     IN  IF reply.kind = "fail"
                         THEN ModuleReturn(caller, module, registry, Err(reply.err), log2)
                         ELSE /\ pc' = "sub_reply_send"
                              /\ pending' = reply
                              /\ io' = log2
                              /\ UNCHANGED <<env, diags_memo, caller, module, registry, lock,
                                             diagnostics, result>>
                  [] msg.val.tag = "EqwalizingStart" ->
                     Goto("sub_check", log \o <<Called("eqwalizing_start", msg.val.module)>>)
                  [] msg.val.tag = "EqwalizingDone" ->
                     Goto("sub_check", log \o <<Called("eqwalizing_done", msg.val.module)>>)
                  [] msg.val.tag = "Done" ->
                     ModuleReturn(caller, module, registry,
                                  Ok(Diagnostics(msg.val.diagnostics, msg.val.type_info)), log)
                  [] msg.val.tag = "Dependencies" ->
                     Goto("sub_check",
                          log \o [i \in 1..Len(msg.val.modules) |->
                                     Called("TransitiveStub", msg.val.modules[i])])
                  [] OTHER -> Goto("sub_check", log)

SubSendReply_NoAck(works) ==
    /\ pc = "sub_reply_send"
    /\ UNCHANGED nondriver
    /\ UNCHANGED <<cancelled, stalled>>
    /\ LET s == send(pending.reply, works)
       IN  IF ~s.res.ok THEN ModuleReturn(caller, module, registry, s.res, io \o s.events)
           ELSE IF pending.kind = "return"
           THEN ModuleReturn(caller, module, registry, Ok(pending.ret), io \o s.events)
           ELSE IF pending.kind = "bytes" THEN Goto("sub_send_bytes", io \o s.events)
           ELSE Goto("sub_recv_newline", io \o s.events)

(* get_module_diagnostics, lines 408, 424, 433-434, 443-444 *)
SubSendReply(works) ==
    /\ pc = "sub_reply_send"
    /\ UNCHANGED nondriver
    /\ UNCHANGED <<cancelled, stalled>>
    /\ LET s == send(pending.reply, works)
       IN  IF ~s.res.ok THEN ModuleReturn(caller, module, registry, s.res, io \o s.events)
           ELSE IF pending.kind = "return"
           THEN ModuleReturn(caller, module, registry, Ok(pending.ret), io \o s.events)
           ELSE Goto("sub_recv_newline", io \o s.events)

(* get_module_diagnostics, lines 409, 425 *)
SubReceiveNewline(line) ==
    /\ pc = "sub_recv_newline"
    /\ UNCHANGED nondriver
    /\ UNCHANGED <<cancelled, stalled>>
    /\ LET r == receive_newline(line)
       IN  IF ~r.ok THEN ModuleReturn(caller, module, registry, r, io)
           ELSE IF pending.kind = "bytes" THEN Goto("sub_send_bytes", io \o <<ReceivedNewline>>)
           ELSE /\ pc' = "sub_check"
                /\ pending' = NoPending
                /\ io' = io \o <<ReceivedNewline>>
                /\ UNCHANGED <<env, diags_memo, caller, module, registry, lock, diagnostics, result>>

(* get_module_diagnostics, lines 410-415 *)
SubSendBytes(written) ==
    /\ pc = "sub_send_bytes"
    /\ UNCHANGED nondriver
    /\ UNCHANGED <<cancelled, stalled>>
    /\ LET s == send_bytes(pending.bytes, written)
           r == with_context(s.res, <<"sending to eqwalizer: bytes for module">>)
       IN  IF ~r.ok THEN ModuleReturn(caller, module, registry, r, io \o s.events)
           ELSE /\ pc' = "sub_check"
                /\ pending' = NoPending
                /\ io' = io \o s.events
                /\ UNCHANGED <<env, diags_memo, caller, module, registry, lock, diagnostics, result>>

(* RootDatabase::request_cancellation, from another thread *)
Cancel ==
    /\ ~cancelled
    /\ UNCHANGED nondriver
    /\ pc \notin {"idle", "returned", "unwound", "query_done"}
    /\ cancelled' = TRUE
    /\ UNCHANGED stalled
    /\ UNCHANGED <<env, diags_memo, pc, caller, module, registry, lock, diagnostics, result, pending, io>>

(* The external process stops reading and writing, for good *)
Stall ==
    /\ ~stalled
    /\ UNCHANGED nondriver
    /\ pc \notin {"idle", "spawn", "returned", "unwound", "query_done"}
    /\ stalled' = TRUE
    /\ UNCHANGED <<env, diags_memo, pc, caller, module, registry, lock, diagnostics, result,
                   pending, io, cancelled>>

Next ==
    \/ \E exe \in BOOLEAN : Typecheck(exe)
    \/ \E outcome \in SpawnOutcomes : Spawn(outcome)
    \/ TopCheck
    \/ \E line \in ReadLine(Lines, stalled) : TopReceive(line)
    \/ \E works \in BOOLEAN : TopSendExiting(works)
    \/ \E m \in Modules : DirectQuery(m)
    \/ \E works \in BOOLEAN : SubSendEntering(works)
    \/ SubCheck
    \/ \E line \in ReadLine(Lines, stalled) : SubReceive(line)
    \/ \E works \in BOOLEAN : SubSendReply(works)
    \/ \E line \in ReadLine({BlankLine, ReadFailed}, stalled) : SubReceiveNewline(line)
    \/ \E written \in 0..MaxWritten : SubSendBytes(written)
    \/ Cancel
    \/ Stall

Spec == Init /\ [][Next]_vars

-----------------------------------------------------------------------------
(* Properties of the driver                                                 *)

SubPcs == {"sub_enter_send", "sub_check", "sub_recv", "sub_reply_send",
           "sub_recv_newline", "sub_send_bytes"}

(* The window io opens with the receipt of a GetAstBytes request; Request   *)
(* is that request and RequestAst what its derivation query yields          *)
AnsweringGetAstBytes ==
    /\ Len(io) >= 2
    /\ io[1].op = "recv"
    /\ io[1].msg.tag = "GetAstBytes"
    /\ io[2] = Called(io[1].msg.format, io[1].msg.module)
Request == io[1].msg
RequestAst == AstFor(env, Request)
RequestHead == <<Received(Request), Called(Request.format, Request.module)>>

Sends(log) == SelectSeq(log, LAMBDA e : e.op = "send")
Writes(log) == SelectSeq(log, LAMBDA e : e.op = "write")

RECURSIVE Written(_)
Written(log) == IF log = <<>> THEN <<>> ELSE Head(log).bytes \o Written(Tail(log))

(* do_typecheck got the result of module_diagnostics back in this step *)
SubLoopReturnsToDriver ==
    /\ pc \in SubPcs
    /\ caller = "typecheck"
    /\ pc' \notin SubPcs \cup {"unwound"}

(* C1: when the sub-loop of an entered module returns and its delta is      *)
(* merged, a merged Error or NoAst is returned at once, with no             *)
(* ELPExitingModule sent and nothing received any more; a merged            *)
(* Diagnostics makes the driver send ELPExitingModule, once, as its next    *)
(* channel operation, and then go back to the top of the loop to receive.   *)
C1_ShortCircuitOrExit ==
    [][ /\ SubLoopReturnsToDriver =>
              IF diagnostics'.tag \in {"Error", "NoAst"}
              THEN /\ pc' = "returned"
                   /\ result' = Some(diagnostics')
                   /\ \A i \in 1..Len(io') : io'[i] # Sent(ELPExitingModule)
              ELSE /\ pc' = "top_exit_send"
                   /\ result' = result
                   /\ \A i \in 1..Len(io') : io'[i] # Sent(ELPExitingModule)
        /\ (pc = "top_exit_send" /\ pc' # pc) =>
              \/ pc' = "top_check" /\ io' = io \o <<Sent(ELPExitingModule)>>
              \/ pc' = "returned" /\ io' = io /\ result'.val.tag = "Error"
        /\ pc = "returned" => pc' = "returned"
      ]_vars

C1_Witness ==
    /\ pc = "returned"
    /\ caller = "typecheck"
    /\ result = Some(NoAst("a"))
    /\ module = "b"
    /\ registry["b"] = "none"

(* The driver sends its reply to a GetAstBytes request, received for an     *)
(* entered module, whose derivation failed                                  *)
StageErrorAnswered ==
    /\ pc = "sub_reply_send"
    /\ caller = "typecheck"
    /\ AnsweringGetAstBytes
    /\ ~RequestAst.ok
    /\ Len(io') = Len(io) + 1
    /\ io'[Len(io')].op = "send"

(* C2 as claimed: after the driver has answered a GetAstBytes request whose *)
(* derivation failed, the session is still running.                         *)
C2_SessionGoesOn == [][StageErrorAnswered => pc' # "returned"]_vars

(* C2, amended: a derivation error met while answering GetAstBytes never    *)
(* escapes as a failure of the driver.  On ModuleNotFound the driver sends  *)
(* an empty reply and the sub-loop goes on; on every other derivation error *)
(* it sends CannotCompleteRequest and typecheck returns at once with the    *)
(* NoAst or Error result, the handle of the entered module removed, so that *)
(* no module is serviced afterwards.                                        *)
C2_ErrorCaughtAtBoundary ==
    [][StageErrorAnswered =>
          IF RequestAst.err.kind = "ModuleNotFound"
          THEN /\ pc' = "sub_recv_newline"
               /\ io' = io \o <<Sent(GetAstBytesReply(0))>>
               /\ ~result'.some
          ELSE /\ pc' = "returned"
               /\ io' = io \o <<Sent(CannotCompleteRequest)>>
               /\ result'.some
               /\ result'.val.tag \in {"NoAst", "Error"}
               /\ registry'[module] = "none"
               /\ ~lock'
      ]_vars

C2_Witness ==
    /\ pc = "returned"
    /\ caller = "typecheck"
    /\ AnsweringGetAstBytes
    /\ ~RequestAst.ok
    /\ RequestAst.err.kind = "ContractivityError"
    /\ Request.module # module
    /\ io[Len(io)] = Sent(CannotCompleteRequest)

(* C3: a GetAstBytes request that resolves to the buffer B is answered by   *)
(* GetAstBytesReply{ast_bytes_len = Len(B)}, then one line is received,     *)
(* then the bytes of B are written and flushed, in this order with nothing  *)
(* else on the channel, before the next control message is received.        *)
C3_ReplyAckBytes ==
    (AnsweringGetAstBytes /\ RequestAst.ok) =>
        LET B == RequestAst.val
            reply == <<Sent(GetAstBytesReply(Len(B)))>>
        IN  /\ pc = "sub_reply_send" => io = RequestHead
            /\ pc = "sub_recv_newline" => io = RequestHead \o reply
            /\ pc = "sub_send_bytes" => io = RequestHead \o reply \o <<ReceivedNewline>>
            /\ pc \in {"sub_check", "sub_recv"} =>
                  /\ Len(io) >= 5
                  /\ SubSeq(io, 1, 4) = RequestHead \o reply \o <<ReceivedNewline>>
                  /\ io[Len(io)] = Flushed
                  /\ \A i \in 5..(Len(io) - 1) : io[i].op = "write"
                  /\ Written(Writes(io)) = B
                  /\ Len(Written(Writes(io))) = io[3].msg.ast_bytes_len

C3_Witness ==
    /\ pc = "sub_recv"
    /\ AnsweringGetAstBytes
    /\ RequestAst.ok
    /\ Request.format = "TransitiveStub"
    /\ Len(RequestAst.val) > 2
    /\ io[Len(io)] = Flushed

(* C4: a GetAstBytes request that fails with ModuleNotFound is answered by  *)
(* GetAstBytesReply{ast_bytes_len = 0}; no raw bytes are written; the       *)
(* sub-loop is not ended by the request and goes on to its next receive.    *)
C4_ModuleNotFoundEmptyReply ==
    (AnsweringGetAstBytes /\ ~RequestAst.ok /\ RequestAst.err.kind = "ModuleNotFound") =>
        /\ pc \in SubPcs \ {"sub_enter_send", "sub_send_bytes"} \/ pc \in {"returned", "query_done", "unwound"}
        /\ Writes(io) = <<>>
        /\ pc = "sub_reply_send" => io = RequestHead /\ pending.reply = GetAstBytesReply(0)
        /\ pc = "sub_recv_newline" => io = RequestHead \o <<Sent(GetAstBytesReply(0))>>
        /\ pc \in {"sub_check", "sub_recv", "unwound"} =>
              io = RequestHead \o <<Sent(GetAstBytesReply(0)), ReceivedNewline>>
        /\ pc \in {"returned", "query_done"} =>
              /\ result.some
              /\ result.val.tag = "Error"
              /\ \/ io = RequestHead
                    /\ result.val.msg[4] = <<"writing message", "GetAstBytesReply">>
                 \/ io = RequestHead \o <<Sent(GetAstBytesReply(0))>>
                    /\ result.val.msg[4] = <<"receiving newline">>

C4_Witness ==
    /\ pc = "sub_recv"
    /\ AnsweringGetAstBytes
    /\ ~RequestAst.ok
    /\ RequestAst.err.kind = "ModuleNotFound"
    /\ Request.format = "ConvertedForms"
    /\ io[Len(io)] = ReceivedNewline

(* C5: a GetAstBytes{module: R} request that fails with ParseError makes    *)
(* the driver send CannotCompleteRequest, once, and nothing else, and ends  *)
(* the sub-loop with the result NoAst{module: R}.                           *)
C5_ParseErrorNoAst ==
    (AnsweringGetAstBytes /\ ~RequestAst.ok /\ RequestAst.err.kind = "ParseError") =>
        /\ pc \in {"sub_reply_send", "returned", "query_done"}
        /\ pc = "sub_reply_send" => io = RequestHead /\ pending.reply = CannotCompleteRequest
        /\ pc \in {"returned", "query_done"} =>
              \/ /\ io = RequestHead \o <<Sent(CannotCompleteRequest)>>
                 /\ result = Some(NoAst(Request.module))
              \/ /\ io = RequestHead
                 /\ result.val.tag = "Error"
                 /\ result.val.msg[4] = <<"writing message", "CannotCompleteRequest">>

C5_Witness ==
    /\ pc = "returned"
    /\ module = "a"
    /\ AnsweringGetAstBytes
    /\ Request = GetAstBytes("b", "TransitiveStub")
    /\ io[Len(io)] = Sent(CannotCompleteRequest)
    /\ result = Some(NoAst("b"))

(* C6: a GetAstBytes request that fails with a derivation error other than  *)
(* ModuleNotFound and ParseError makes the driver send                      *)
(* CannotCompleteRequest, once, and ends the sub-loop with the result       *)
(* Error(message of that error).                                            *)
C6_OtherErrorIsError ==
    (AnsweringGetAstBytes /\ ~RequestAst.ok
        /\ RequestAst.err.kind \notin {"ModuleNotFound", "ParseError"}) =>
        /\ RequestAst.err.kind \in {"BEAMNotFound", "TypeConversionError", "ContractivityError",
                                    "VarianceCheckError", "TransitiveCheckError"}
        /\ pc \in {"sub_reply_send", "returned", "query_done"}
        /\ pc = "sub_reply_send" => io = RequestHead /\ pending.reply = CannotCompleteRequest
        /\ pc \in {"returned", "query_done"} =>
              \/ /\ io = RequestHead \o <<Sent(CannotCompleteRequest)>>
                 /\ result = Some(DiagError(<<RequestAst.err.kind, RequestAst.err.arg>>))
              \/ /\ io = RequestHead
                 /\ result.val.tag = "Error"
                 /\ result.val.msg[4] = <<"writing message", "CannotCompleteRequest">>

C6_Witness ==
    /\ pc = "returned"
    /\ AnsweringGetAstBytes
    /\ io[Len(io)] = Sent(CannotCompleteRequest)
    /\ result = Some(DiagError(<<"BEAMNotFound", <<"ebin", "b", ".beam">>>>))

(* The top-level loop receives a Done *)
TopLevelDone ==
    /\ pc = "top_recv"
    /\ pc' # pc
    /\ io' # <<>>
    /\ io'[1].op = "recv"
    /\ io'[1].msg.tag = "Done"

(* C7 as claimed: on a top-level Done the driver returns the accumulated    *)
(* diagnostics merged with the diagnostics and type_info of the message.    *)
C7_ReturnsMergedWithPayload ==
    [][TopLevelDone =>
          /\ pc' = "returned"
          /\ result' = Some(combine(diagnostics,
                                    Diagnostics(io'[1].msg.diagnostics, io'[1].msg.type_info)))
      ]_vars

(* C7, amended: on a top-level Done the driver returns the accumulated      *)
(* diagnostics as they are; what the Done message carries is dropped.       *)
C7_ReturnsAccumulated ==
    [][TopLevelDone =>
          /\ pc' = "returned"
          /\ result' = Some(diagnostics)
          /\ diagnostics.tag = "Diagnostics"
          /\ io' = <<Received(io'[1].msg)>>
      ]_vars

C7_Witness ==
    /\ pc = "returned"
    /\ io = <<Received(Done("b" :> <<"d1">>, "b" :> <<"t1">>))>>
    /\ DOMAIN diagnostics.errors = {"a"}
    /\ result = Some(diagnostics)

(* C8: the registry holds an entry for a module only while that module's    *)
(* sub-loop runs for the session that entered it.                           *)
C8_EntryOnlyWhileEntered ==
    \A m \in Modules :
        registry[m] # "none" => (pc \in SubPcs /\ caller = "typecheck" /\ module = m)

Checks == {"top_check", "sub_check"}

(* C9 as claimed: every blocking receive, of a control message or of the    *)
(* acknowledging line, is entered out of a check of the cancellation        *)
(* signal, and a check that sees the signal ends the invocation with        *)
(* nothing sent.                                                            *)
C9_CheckBeforeEveryReceive ==
    [][ /\ (pc' # pc /\ pc' \in {"top_recv", "sub_recv", "sub_recv_newline"}) => pc \in Checks
        /\ (pc \in Checks /\ cancelled /\ stalled' = stalled) => (pc' = "unwound" /\ io' = io)
      ]_vars

(* C9, amended: the receive of a control message, in both loops, is entered *)
(* out of a check of the cancellation signal that found it unset; the       *)
(* receive of the acknowledging line follows the send of the reply with no  *)
(* check in between; a check that sees the signal unwinds the invocation,   *)
(* which sends and receives nothing more.                                   *)
C9_CheckBeforeControlReceive ==
    [][ /\ (pc' # pc /\ pc' \in {"top_recv", "sub_recv"}) => (pc \in Checks /\ ~cancelled)
        /\ (pc' # pc /\ pc' = "sub_recv_newline") => pc = "sub_reply_send"
        /\ (pc \in Checks /\ cancelled /\ stalled' = stalled) =>
              (pc' = "unwound" /\ io' = io /\ ~lock')
        /\ pc = "unwound" => (pc' = "unwound" \/ (caller' = "direct" /\ ~cancelled'))
      ]_vars

C9_Witness ==
    /\ pc = "unwound"
    /\ cancelled
    /\ caller = "typecheck"
    /\ AnsweringGetAstBytes
    /\ io[Len(io)] = Flushed

(* C10: the body of module_diagnostics(M), started (the database holds no   *)
(* value for M) while the registry has no handle for M, sends nothing,      *)
(* waits for nothing and returns an Error whose message names M.            *)
C10_NoHandleIsError ==
    [][ (pc \in {"idle", "unwound"} /\ pc' # pc /\ caller' = "direct"
            /\ ~diags_memo[module'].some /\ registry[module'] = "none") =>
          /\ pc' = "query_done"
          /\ result' = Some(DiagError(<<"eqWAlizing module ", module', ":\n",
                                        <<"no eqWAlizer handle for module ", module'>>>>))
          /\ io' = <<Called("module_diagnostics", module')>>
          /\ ~lock'
          /\ registry' = registry
      ]_vars

C10_Witness ==
    /\ pc = "query_done"
    /\ module = "a"
    /\ io = <<Called("module_diagnostics", "a")>>
    /\ result.val.tag = "Error"
    /\ registry = [m \in Modules |-> IF m = "b" THEN "handle" ELSE "none"]

-----------------------------------------------------------------------------
(* Process-level failures                                                   *)

TopPcs == {"spawn", "top_check", "top_recv", "top_exit_send"}

(* The step is one of a typecheck session, at the top level or in the      *)
(* sub-loop of a module it entered                                          *)
InTypecheck == pc \in TopPcs \/ (pc \in SubPcs /\ caller = "typecheck")

(* The step met a process-level failure: the spawn failed, a read failed or *)
(* timed out, the line read is no protocol message, or a write or flush     *)
(* failed or timed out                                                      *)
ProcessFailure ==
    /\ pc' # pc
    /\ \/ pc = "spawn" /\ pc' # "top_check"
       \/ pc \in {"top_recv", "sub_recv"} /\ io'[1].msg \in {Malformed, ReadFailed}
       \/ pc \in {"top_exit_send", "sub_enter_send", "sub_reply_send"} /\ io' = io
       \/ pc = "sub_recv_newline" /\ io' = io
       \/ pc = "sub_send_bytes" /\ (io' = <<>> \/ io'[Len(io')] # Flushed)

(* C11: a process-level failure at any point of either loop of a typecheck  *)
(* session ends the session in that very step: typecheck returns an Error   *)
(* value carrying the failure's message, never a Diagnostics or a NoAst,    *)
(* and what it returned stays returned.                                     *)
C11_ProcessFailureIsError ==
    [][ /\ (InTypecheck /\ ProcessFailure) =>
              /\ pc' = "returned"
              /\ result'.some
              /\ result'.val.tag = "Error"
              /\ result'.val.msg[1] \in {"Debug", "eqWAlizing module "}
        /\ pc = "returned" => (pc' = "returned" /\ result' = result)
      ]_vars

C11_Witness ==
    /\ pc = "returned"
    /\ caller = "typecheck"
    /\ io = <<Received(Malformed)>>
    /\ result.some
    /\ result.val.tag = "Error"
    /\ result.val.msg[1] = "eqWAlizing module "
    /\ result.val.msg[2] = "b"

-----------------------------------------------------------------------------
(* The stub derivation chain as the query database runs it: a query's body  *)
(* calls the query of the stage before it for the same module, and runs its *)
(* own checker on what that returned                                        *)

Upstream_SkipVariance(q) ==
    CASE q = "expanded_stub" -> "converted_stub"
      [] q = "contractive_stub" -> "expanded_stub"
      [] q = "covariant_stub" -> "contractive_stub"
      [] q = "transitive_stub" -> "contractive_stub"
      [] q = "transitive_stub_bytes" -> "transitive_stub"

(* The query a query's body calls first *)
Upstream(q) ==
    CASE q = "expanded_stub" -> "converted_stub"
      [] q = "contractive_stub" -> "expanded_stub"
      [] q = "covariant_stub" -> "contractive_stub"
      [] q = "transitive_stub" -> "covariant_stub"
      [] q = "transitive_stub_bytes" -> "transitive_stub"

(* The checker a query's body runs on the stub the upstream query returned *)
CheckerOf(q) ==
    CASE q = "expanded_stub" -> "StubExpander"
      [] q = "contractive_stub" -> "StubContractivityChecker"
      [] q = "covariant_stub" -> "VarianceChecker"
      [] q = "transitive_stub" -> "TransitiveChecker"
      [] OTHER -> "none"

(* What the body of q returns for module m, given what its upstream query   *)
(* returned                                                                 *)
QueryBody(q, db, m, up) ==
    CASE q = "converted_stub" -> converted_stub(db, m)
      [] q = "expanded_stub" -> expanded_stub_from(db, m, up)
      [] q = "contractive_stub" -> contractive_stub_from(db, m, up)
      [] q = "covariant_stub" -> covariant_stub_from(db, m, up)
      [] q = "transitive_stub" -> transitive_stub_from(db, m, up)
      [] q = "transitive_stub_bytes" -> transitive_stub_bytes_from(up)

Memoized_OnlyOk(value) == IF value.ok THEN Some(value) ELSE None

(* What the database keeps of an executed query: its value, a Result, Ok or *)
(* Err alike                                                                *)
Memoized(value) == Some(value)

QueryInit ==
    /\ env \in [Modules -> UNION {ModuleEnvs(m) : m \in Modules}]
    /\ \A m \in Modules : env[m] \in ModuleEnvs(m)
    /\ DriverIdle
    /\ ConvertIdle
    /\ ThreadsIdle
    /\ QueryIdle
    /\ CombineIdle
    /\ PreprocessIdle
    /\ SendIdle

(* A client asks for query q of module m *)
QueryRequest(q, m) ==
    /\ stack = <<>>
    /\ stack' = << <<q, m>> >>
    /\ UNCHANGED <<memo, ran, computed>>
    /\ UNCHANGED nonquery

(* The query on top has a memoized result: it is returned *)
QueryHit ==
    /\ stack # <<>>
    /\ memo[stack[Len(stack)]].some
    /\ stack' = SubSeq(stack, 1, Len(stack) - 1)
    /\ UNCHANGED <<memo, ran, computed>>
    /\ UNCHANGED nonquery

(* The body of the query on top calls its upstream query, not yet computed *)
QueryCall ==
    /\ stack # <<>>
    /\ LET q == stack[Len(stack)][1]
           m == stack[Len(stack)][2]
       IN  /\ ~memo[<<q, m>>].some
           /\ q # "converted_stub"
           /\ ~memo[<<Upstream(q), m>>].some
           /\ stack' = Append(stack, <<Upstream(q), m>>)
    /\ UNCHANGED <<memo, ran, computed>>
    /\ UNCHANGED nonquery

(* The body of the query on top has what its upstream query returned: it    *)
(* propagates the error, or runs its checker, and its result is memoized    *)
QueryFinish ==
    /\ stack # <<>>
    /\ LET q == stack[Len(stack)][1]
           m == stack[Len(stack)][2]
           up == IF q = "converted_stub" THEN Ok(<<>>) ELSE memo[<<Upstream(q), m>>].val
       IN  /\ ~memo[<<q, m>>].some
           /\ q # "converted_stub" => memo[<<Upstream(q), m>>].some
           /\ memo' = [memo EXCEPT ![<<q, m>>] = Memoized(QueryBody(q, env, m, up))]
           /\ computed' = [computed EXCEPT ![<<q, m>>] = @ + 1]
           /\ ran' = IF up.ok /\ CheckerOf(q) # "none"
                     THEN Append(ran, <<CheckerOf(q), m>>) ELSE ran
           /\ stack' = SubSeq(stack, 1, Len(stack) - 1)
    /\ UNCHANGED nonquery

QueryNext ==
    \/ \E q \in StubQueries, m \in Modules : QueryRequest(q, m)
    \/ QueryHit
    \/ QueryCall
    \/ QueryFinish

QuerySpec == QueryInit /\ [][QueryNext]_vars

CheckerChain == <<"StubExpander", "StubContractivityChecker", "VarianceChecker",
                  "TransitiveChecker">>
StageChain == <<"converted_stub", "expanded_stub", "contractive_stub", "covariant_stub",
                "transitive_stub">>

(* C12: whatever queries are requested, in whatever order, a stage of a     *)
(* module is computed only once the stage before it is computed for that    *)
(* module, and a stage's checker runs only after the checker of the stage   *)
(* directly before it ran for that module and that stage gave a stub.       *)
C12_StagesInOrder ==
    /\ \A m \in Modules : \A k \in 2..Len(StageChain) :
          memo[<<StageChain[k], m>>].some => memo[<<StageChain[k - 1], m>>].some
    /\ \A i \in 1..Len(ran) : \A k \in 1..Len(CheckerChain) :
          ran[i][1] = CheckerChain[k] =>
              /\ memo[<<StageChain[k], ran[i][2]>>].some
              /\ memo[<<StageChain[k], ran[i][2]>>].val.ok
              /\ k > 1 => \E j \in 1..(i - 1) : ran[j] = <<CheckerChain[k - 1], ran[i][2]>>

C12_Witness ==
    /\ stack = <<>>
    /\ ran = << <<"StubExpander", "b">>, <<"StubContractivityChecker", "b">>,
                <<"VarianceChecker", "b">>, <<"TransitiveChecker", "b">>,
                <<"StubExpander", "a">>, <<"StubContractivityChecker", "a">> >>
    /\ memo[<<"covariant_stub", "a">>].some
    /\ ~memo[<<"covariant_stub", "a">>].val.ok
    /\ memo[<<"transitive_stub_bytes", "b">>].some

-----------------------------------------------------------------------------
(* EqwalizerDiagnostics::combine on its own: values are drawn, and combined *)
(* in pairs and in folds of three                                           *)

CombineValues ==
    { DiagDefault,
      Diagnostics("a" :> <<"d1">>, "a" :> <<"t1">>),
      Diagnostics("a" :> <<"d2">>, EmptyMap),
      Diagnostics("b" :> <<"d1">>, "b" :> <<"t1">>),
      NoAst("a"), NoAst("ab"), NoAst("b"),
      DiagError(<<"e1">>), DiagError(<<"e2">>) }

Permutations3 == { p \in [1..3 -> 1..3] : \A i, j \in 1..3 : p[i] = p[j] => i = j }

Computed(op, of, val) == Some([op |-> op, of |-> of, val |-> val])

CombineInit ==
    /\ env = [m \in Modules |-> AppModule(SrcOk, "none")]
    /\ DriverIdle
    /\ ConvertIdle
    /\ ThreadsIdle
    /\ QueryIdle
    /\ operands \in [1..3 -> CombineValues]
    /\ out = None
    /\ prev = None
    /\ PreprocessIdle
    /\ SendIdle

(* x.combine(y) for two of the values *)
CombinePair(i, j) ==
    /\ operands # <<>>
    /\ i # j
    /\ out' = Computed("pair", <<i, j>>, combine(operands[i], operands[j]))
    /\ prev' = out
    /\ UNCHANGED operands
    /\ UNCHANGED noncombine

(* x.combine(EqwalizerDiagnostics::default()) *)
CombineWithDefault(i) ==
    /\ operands # <<>>
    /\ out' = Computed("default", <<i>>, combine(operands[i], DiagDefault))
    /\ prev' = out
    /\ UNCHANGED operands
    /\ UNCHANGED noncombine

(* x.combine(y).combine(z), the values taken in the order p *)
FoldLeft(p) ==
    /\ operands # <<>>
    /\ out' = Computed("left", p,
                       combine(combine(operands[p[1]], operands[p[2]]), operands[p[3]]))
    /\ prev' = out
    /\ UNCHANGED operands
    /\ UNCHANGED noncombine

(* x.combine(y.combine(z)), the values taken in the order p *)
FoldRight(p) ==
    /\ operands # <<>>
    /\ out' = Computed("right", p,
                       combine(operands[p[1]], combine(operands[p[2]], operands[p[3]])))
    /\ prev' = out
    /\ UNCHANGED operands
    /\ UNCHANGED noncombine

CombineNext ==
    \/ \E i, j \in 1..3 : CombinePair(i, j)
    \/ \E i \in 1..3 : CombineWithDefault(i)
    \/ \E p \in Permutations3 : FoldLeft(p)
    \/ \E p \in Permutations3 : FoldRight(p)

CombineSpec == CombineInit /\ [][CombineNext]_vars

IsTerminalValue(v) == v.tag \in {"Error", "NoAst"}

(* C13: combining any value with the empty Diagnostics gives that value.    *)
C13_CombineWithEmpty ==
    (out.some /\ out.val.op = "default") => out.val.val = operands[out.val.of[1]]

C13_Witness ==
    /\ out.some
    /\ out.val.op = "default"
    /\ operands[out.val.of[1]] = Diagnostics("a" :> <<"d1">>, "a" :> <<"t1">>)
    /\ prev.some
    /\ prev.val.op = "default"
    /\ operands[prev.val.of[1]] = NoAst("ab")

(* C14: an Error or a NoAst combined with a Diagnostics value, as receiver  *)
(* or as argument, gives that Error or NoAst.                               *)
C14_TerminalWins ==
    (out.some /\ out.val.op = "pair") =>
        LET x == operands[out.val.of[1]]
            y == operands[out.val.of[2]]
        IN  /\ (IsTerminalValue(x) /\ y.tag = "Diagnostics") => out.val.val = x
            /\ (x.tag = "Diagnostics" /\ IsTerminalValue(y)) => out.val.val = y

C14_Witness ==
    /\ out.some
    /\ out.val.op = "pair"
    /\ operands[out.val.of[1]] = Diagnostics("b" :> <<"d1">>, "b" :> <<"t1">>)
    /\ operands[out.val.of[2]] = NoAst("a")
    /\ prev.some
    /\ prev.val.op = "pair"
    /\ operands[prev.val.of[1]] = DiagError(<<"e1">>)
    /\ operands[prev.val.of[2]] = Diagnostics("b" :> <<"d1">>, "b" :> <<"t1">>)

(* Both values combined are NoAst *)
TwoNoAst ==
    /\ out.some
    /\ out.val.op = "pair"
    /\ operands[out.val.of[1]].tag = "NoAst"
    /\ operands[out.val.of[2]].tag = "NoAst"

(* C15 as claimed: two NoAst values combine to the NoAst of the             *)
(* lexicographically larger module name, whichever is the receiver.         *)
C15_LargerNameWins ==
    TwoNoAst =>
        LET x == operands[out.val.of[1]]
            y == operands[out.val.of[2]]
        IN  out.val.val = IF StrGt(x.module, y.module) THEN x ELSE y

(* C15, amended: two NoAst values combine to the NoAst of the               *)
(* lexicographically smaller module name, whichever is the receiver.        *)
C15_SmallerNameWins ==
    TwoNoAst =>
        LET x == operands[out.val.of[1]]
            y == operands[out.val.of[2]]
        IN  out.val.val = IF StrGt(x.module, y.module) THEN y ELSE x

C15_Witness ==
    /\ TwoNoAst
    /\ operands[out.val.of[1]] = NoAst("b")
    /\ operands[out.val.of[2]] = NoAst("ab")
    /\ out.val.val = NoAst("ab")
    /\ prev.some
    /\ prev.val.op = "pair"
    /\ prev.val.of = <<out.val.of[2], out.val.of[1]>>
    /\ prev.val.val = NoAst("ab")

KeysOf(v) == IF v.tag = "Diagnostics" THEN DOMAIN v.errors \cup DOMAIN v.type_info ELSE {}

DisjointKeys == \A i, j \in 1..3 : i # j => KeysOf(operands[i]) \cap KeysOf(operands[j]) = {}

(* The latest two computations are folds of the three values *)
TwoFolds ==
    /\ out.some
    /\ prev.some
    /\ out.val.op \in {"left", "right"}
    /\ prev.val.op \in {"left", "right"}

(* The two folds to compare: the two groupings of one order, or two orders  *)
Comparable ==
    \/ out.val.op = prev.val.op
    \/ out.val.of = prev.val.of

(* C16 as claimed: over values with disjoint module keys, the two groupings *)
(* of a fold agree and every order of folding gives the same value.         *)
C16_AnyOrderAnyGrouping ==
    (TwoFolds /\ Comparable /\ DisjointKeys) => out.val.val = prev.val.val

(* At most one value is an Error or a NoAst, or none is an Error *)
OneTerminalOrNoError ==
    \/ Cardinality({i \in 1..3 : IsTerminalValue(operands[i])}) <= 1
    \/ \A i \in 1..3 : operands[i].tag # "Error"

(* C16, amended: over values with disjoint module keys of which at most one *)
(* is terminal, or none is an Error, the two groupings of a fold agree and  *)
(* every order of folding gives the same value.                             *)
C16_OrderRobustUpToErrors ==
    (TwoFolds /\ Comparable /\ DisjointKeys /\ OneTerminalOrNoError) =>
        out.val.val = prev.val.val

C16_Witness ==
    /\ TwoFolds
    /\ out.val.op = "left"
    /\ prev.val.op = "right"
    /\ out.val.of # prev.val.of
    /\ DisjointKeys
    /\ \E i, j, k \in 1..3 :
          /\ operands[i] = Diagnostics("a" :> <<"d1">>, "a" :> <<"t1">>)
          /\ operands[j] = Diagnostics("b" :> <<"d1">>, "b" :> <<"t1">>)
          /\ operands[k] = NoAst("b")
    /\ out.val.val = NoAst("b")

-----------------------------------------------------------------------------
(* ast/preprocess.rs.  Expressions, patterns, tests and clauses are records *)
(* carrying the fields of their structs; an Option is Some(v) or None.      *)

Var(location, n) == [tag |-> "Var", location |-> location, n |-> n]
AtomLit(location, s) == [tag |-> "AtomLit", location |-> location, s |-> s]
IntLit(location, value) == [tag |-> "IntLit", location |-> location, value |-> value]
Block(location, exprs) == [tag |-> "Block", location |-> location, body |-> [exprs |-> exprs]]
Tuple(location, elems) == [tag |-> "Tuple", location |-> location, elems |-> elems]
LocalCall(location, id, args) ==
    [tag |-> "LocalCall", location |-> location, id |-> id, args |-> args]
RemoteCall(location, id, args) ==
    [tag |-> "RemoteCall", location |-> location, id |-> id, args |-> args]
LocalFun(location, id) == [tag |-> "LocalFun", location |-> location, id |-> id]
RemoteFun(location, id) == [tag |-> "RemoteFun", location |-> location, id |-> id]
Lambda(location, name, clauses) ==
    [tag |-> "Lambda", location |-> location, name |-> name, clauses |-> clauses]
UnOp(location, op, arg) == [tag |-> "UnOp", location |-> location, op |-> op, arg |-> arg]
BinOp(location, op, arg_1, arg_2) ==
    [tag |-> "BinOp", location |-> location, op |-> op, arg_1 |-> arg_1, arg_2 |-> arg_2]
Clause(location, pats, guards, exprs) ==
    [location |-> location, pats |-> pats, guards |-> guards, body |-> [exprs |-> exprs]]
atom_true(location) == AtomLit(location, "true")
atom_false(location) == AtomLit(location, "false")

Id(name, arity) == [name |-> name, arity |-> arity]
RemoteId(m, name, arity) == [module |-> m, name |-> name, arity |-> arity]

(* RemoteId into ast::Id: PREDICATES holds ids of a name and an arity, so   *)
(* the module of a remote id takes no part in the lookup                    *)
IdOf(rid) == Id(rid.name, rid.arity)

PatVar(location, n) == [tag |-> "PatVar", location |-> location, n |-> n]
PatWild(location) == [tag |-> "PatWild", location |-> location]

Guard(tests) == [tests |-> tests]
TestVar(location, v) == [tag |-> "TestVar", location |-> location, v |-> v]
TestAtom(location, s) == [tag |-> "TestAtom", location |-> location, s |-> s]
TestNumber(location, lit) == [tag |-> "TestNumber", location |-> location, lit |-> lit]
TestCall(location, id, args) ==
    [tag |-> "TestCall", location |-> location, id |-> id, args |-> args]
TestTuple(location, elems) == [tag |-> "TestTuple", location |-> location, elems |-> elems]
TestUnOp(location, op, arg) ==
    [tag |-> "TestUnOp", location |-> location, op |-> op, arg |-> arg]
TestBinOp(location, op, arg_1, arg_2) ==
    [tag |-> "TestBinOp", location |-> location, op |-> op, arg_1 |-> arg_1, arg_2 |-> arg_2]

PREDICATES ==
    { Id(n, 1) : n \in {"is_atom", "is_binary", "is_bitstring", "is_boolean", "is_float",
                        "is_function", "is_integer", "is_list", "is_number", "is_pid",
                        "is_port", "is_reference", "is_map", "is_tuple"} }
    \cup { Id("is_record", 2), Id("is_function", 2), Id("is_record", 3) }

BINOP == {"/", "*", "-", "+", "div", "rem", "band", "bor", "bxor", "bsl", "bsr", "or",
          "xor", "and", ">=", ">", "=<", "<", "/=", "=/=", "==", "=:=", "andalso", "orelse"}

UNOP == {"bnot", "+", "-", "not"}

RECURSIVE as_test(_)
RECURSIVE as_tests(_)

as_test_NoTuple(expr) ==
    CASE expr.tag = "Var" -> Some(TestVar(expr.location, expr.n))
      [] expr.tag = "AtomLit" -> Some(TestAtom(expr.location, expr.s))
      [] expr.tag = "IntLit" -> Some(TestNumber(expr.location, expr.value))
      [] expr.tag = "RemoteCall" /\ IdOf(expr.id) \in PREDICATES ->
            LET args == as_tests(expr.args)
            IN  IF args.some THEN Some(TestCall(expr.location, IdOf(expr.id), args.val))
                ELSE None
      [] expr.tag = "UnOp" /\ expr.op \in UNOP ->
            LET arg == as_test(expr.arg)
            IN  IF arg.some THEN Some(TestUnOp(expr.location, expr.op, arg.val)) ELSE None
      [] expr.tag = "BinOp" /\ expr.op \in BINOP ->
            LET arg_1 == as_test(expr.arg_1)
                arg_2 == as_test(expr.arg_2)
            IN  IF arg_1.some /\ arg_2.some
                THEN Some(TestBinOp(expr.location, expr.op, arg_1.val, arg_2.val))
                ELSE None
      [] OTHER -> None

as_test(expr) ==
    CASE expr.tag = "Var" -> Some(TestVar(expr.location, expr.n))
      [] expr.tag = "AtomLit" -> Some(TestAtom(expr.location, expr.s))
      [] expr.tag = "IntLit" -> Some(TestNumber(expr.location, expr.value))
      [] expr.tag = "RemoteCall" /\ IdOf(expr.id) \in PREDICATES ->
            LET args == as_tests(expr.args)
            IN  IF args.some THEN Some(TestCall(expr.location, IdOf(expr.id), args.val))
                ELSE None
      [] expr.tag = "Tuple" ->
            LET elems == as_tests(expr.elems)
            IN  IF elems.some THEN Some(TestTuple(expr.location, elems.val)) ELSE None
      [] expr.tag = "UnOp" /\ expr.op \in UNOP ->
            LET arg == as_test(expr.arg)
            IN  IF arg.some THEN Some(TestUnOp(expr.location, expr.op, arg.val)) ELSE None
      [] expr.tag = "BinOp" /\ expr.op \in BINOP ->
            LET arg_1 == as_test(expr.arg_1)
                arg_2 == as_test(expr.arg_2)
            IN  IF arg_1.some /\ arg_2.some
                THEN Some(TestBinOp(expr.location, expr.op, arg_1.val, arg_2.val))
                ELSE None
      [] OTHER -> None

as_tests(exprs) ==
    IF exprs = <<>> THEN Some(<<>>)
    ELSE LET test == as_test(Head(exprs))
         IN  IF ~test.some THEN None
             ELSE LET rest == as_tests(Tail(exprs))
                  IN  IF rest.some THEN Some(<<test.val>> \o rest.val) ELSE None

(* Preprocessor::fresh_var: the name made of the counter, and the counter   *)
(* after it                                                                 *)
PPNames == <<"$pp0", "$pp1", "$pp2", "$pp3", "$pp4", "$pp5">>
fresh_var_NoIncrement(var) == [name |-> PPNames[var + 1], var |-> var]

fresh_var(var) == [name |-> PPNames[var + 1], var |-> var + 1]

eta_expand_unary_predicate(var, location, name) ==
    LET fresh == fresh_var(var)
        test_call == TestCall(location, Id(name, 1), <<TestVar(location, fresh.name)>>)
        clause_pos == Clause(location, <<PatVar(location, fresh.name)>>,
                             <<Guard(<<test_call>>)>>, <<atom_true(location)>>)
        clause_neg == Clause(location, <<PatVar(location, fresh.name)>>,
                             <<>>, <<atom_false(location)>>)
    IN  [expr |-> Lambda(location, None, <<clause_pos, clause_neg>>), var |-> fresh.var]

(* The lambda a single-clause lambda with one pattern and one body          *)
(* expression, that converts to test, is rewritten to                       *)
RewrittenLambda(var, lambda, test) ==
    LET clause == lambda.clauses[1]
        fresh == fresh_var(var)
    IN  [expr |-> Lambda(lambda.location, lambda.name,
                         << Clause(clause.location, <<clause.pats[1]>>,
                                   <<Guard(<<test>>)>>, <<atom_true(clause.location)>>),
                            Clause(clause.location, <<PatVar(clause.location, fresh.name)>>,
                                   <<>>, <<atom_false(clause.location)>>) >>),
         var |-> fresh.var]

preprocess_lists_partition_arg_fun_AnyClauses(var, location, expr) ==
    IF expr.tag = "RemoteFun" /\ IdOf(expr.id) \in PREDICATES /\ expr.id.arity = 1
    THEN eta_expand_unary_predicate(var, location, expr.id.name)
    ELSE IF expr.tag = "Lambda" /\ Len(expr.clauses) >= 1
    THEN IF /\ Len(expr.clauses[1].body.exprs) = 1
            /\ Len(expr.clauses[1].pats) = 1
            /\ as_test(expr.clauses[1].body.exprs[1]).some
         THEN RewrittenLambda(var, expr, as_test(expr.clauses[1].body.exprs[1]).val)
         ELSE [expr |-> expr, var |-> var]
    ELSE [expr |-> expr, var |-> var]

preprocess_lists_partition_arg_fun_AnyArity(var, location, expr) ==
    IF expr.tag = "RemoteFun" /\ IdOf(expr.id) \in PREDICATES
    THEN eta_expand_unary_predicate(var, location, expr.id.name)
    ELSE IF expr.tag = "Lambda" /\ Len(expr.clauses) = 1
    THEN IF /\ Len(expr.clauses[1].body.exprs) = 1
            /\ Len(expr.clauses[1].pats) = 1
            /\ as_test(expr.clauses[1].body.exprs[1]).some
         THEN RewrittenLambda(var, expr, as_test(expr.clauses[1].body.exprs[1]).val)
         ELSE [expr |-> expr, var |-> var]
    ELSE [expr |-> expr, var |-> var]

preprocess_lists_partition_arg_fun(var, location, expr) ==
    IF expr.tag = "RemoteFun" /\ IdOf(expr.id) \in PREDICATES /\ expr.id.arity = 1
    THEN eta_expand_unary_predicate(var, location, expr.id.name)
    ELSE IF expr.tag = "Lambda" /\ Len(expr.clauses) = 1
    THEN IF /\ Len(expr.clauses[1].body.exprs) = 1
            /\ Len(expr.clauses[1].pats) = 1
            /\ as_test(expr.clauses[1].body.exprs[1]).some
         THEN RewrittenLambda(var, expr, as_test(expr.clauses[1].body.exprs[1]).val)
         ELSE [expr |-> expr, var |-> var]
    ELSE [expr |-> expr, var |-> var]

(* transformer::walk_expr and Transformer::transform_ast: every expression  *)
(* is handed to transform_expr, children left to right, and the node is     *)
(* rebuilt from what came back; the counter of the preprocessor is carried  *)
(* along                                                                    *)
RECURSIVE transform_expr(_, _)
RECURSIVE walk_expr(_, _)
RECURSIVE transform_exprs(_, _)
RECURSIVE transform_clauses(_, _)

transform_exprs(var, exprs) ==
    IF exprs = <<>> THEN [exprs |-> <<>>, var |-> var]
    ELSE LET first == transform_expr(var, Head(exprs))
             rest == transform_exprs(first.var, Tail(exprs))
         IN  [exprs |-> <<first.expr>> \o rest.exprs, var |-> rest.var]

transform_clauses(var, clauses) ==
    IF clauses = <<>> THEN [clauses |-> <<>>, var |-> var]
    ELSE LET body == transform_exprs(var, Head(clauses).body.exprs)
             rest == transform_clauses(body.var, Tail(clauses))
         IN  [clauses |-> << [Head(clauses) EXCEPT !.body = [exprs |-> body.exprs]] >>
                          \o rest.clauses,
              var |-> rest.var]

walk_expr(var, expr) ==
    CASE expr.tag = "Block" ->
            LET body == transform_exprs(var, expr.body.exprs)
            IN  [expr |-> [expr EXCEPT !.body = [exprs |-> body.exprs]], var |-> body.var]
      [] expr.tag = "Tuple" ->
            LET elems == transform_exprs(var, expr.elems)
            IN  [expr |-> [expr EXCEPT !.elems = elems.exprs], var |-> elems.var]
      [] expr.tag \in {"LocalCall", "RemoteCall"} ->
            LET args == transform_exprs(var, expr.args)
            IN  [expr |-> [expr EXCEPT !.args = args.exprs], var |-> args.var]
      [] expr.tag = "Lambda" ->
            LET clauses == transform_clauses(var, expr.clauses)
            IN  [expr |-> [expr EXCEPT !.clauses = clauses.clauses], var |-> clauses.var]
      [] expr.tag = "UnOp" ->
            LET arg == transform_expr(var, expr.arg)
            IN  [expr |-> [expr EXCEPT !.arg = arg.expr], var |-> arg.var]
      [] expr.tag = "BinOp" ->
            LET arg_1 == transform_expr(var, expr.arg_1)
                arg_2 == transform_expr(arg_1.var, expr.arg_2)
            IN  [expr |-> [expr EXCEPT !.arg_1 = arg_1.expr, !.arg_2 = arg_2.expr],
                 var |-> arg_2.var]
      [] OTHER -> [expr |-> expr, var |-> var]

ListsPartition == RemoteId("lists", "partition", 2)

(* Preprocessor::transform_expr *)
transform_expr(var, expr) ==
    IF expr.tag = "RemoteCall" /\ expr.id = ListsPartition
    THEN LET arg_trans == preprocess_lists_partition_arg_fun(var, expr.location, expr.args[1])
         IN  [expr |-> RemoteCall(expr.location, ListsPartition,
                                  <<arg_trans.expr, expr.args[2]>>),
              var |-> arg_trans.var]
    ELSE walk_expr(var, expr)

(* The forms of an AST: a module attribute, and function declarations       *)
ModuleForm(location, name) == [tag |-> "Module", location |-> location, name |-> name]
FunDecl(location, id, clauses) ==
    [tag |-> "FunDecl", location |-> location, id |-> id, clauses |-> clauses]

RECURSIVE transform_ast(_, _)
transform_ast(var, forms) ==
    IF forms = <<>> THEN <<>>
    ELSE IF Head(forms).tag = "FunDecl"
    THEN LET clauses == transform_clauses(var, Head(forms).clauses)
         IN  << [Head(forms) EXCEPT !.clauses = clauses.clauses] >>
             \o transform_ast(clauses.var, Tail(forms))
    ELSE <<Head(forms)>> \o transform_ast(var, Tail(forms))

preprocess(forms) == transform_ast(0, forms)

(* transform_expr, line 290: args.try_into().unwrap() panics when the       *)
(* arguments of a call whose id is lists:partition/2 are not two; the walk  *)
(* comes to the calls that transform_expr comes to                          *)
RECURSIVE transform_expr_panics(_)
transform_expr_panics(expr) ==
    IF expr.tag = "RemoteCall" /\ expr.id = ListsPartition
    THEN Len(expr.args) # 2
    ELSE CASE expr.tag = "Block" ->
                 \E i \in 1..Len(expr.body.exprs) : transform_expr_panics(expr.body.exprs[i])
           [] expr.tag = "Tuple" ->
                 \E i \in 1..Len(expr.elems) : transform_expr_panics(expr.elems[i])
           [] expr.tag \in {"LocalCall", "RemoteCall"} ->
                 \E i \in 1..Len(expr.args) : transform_expr_panics(expr.args[i])
           [] expr.tag = "Lambda" ->
                 \E i \in 1..Len(expr.clauses) : \E j \in 1..Len(expr.clauses[i].body.exprs) :
                     transform_expr_panics(expr.clauses[i].body.exprs[j])
           [] expr.tag = "UnOp" -> transform_expr_panics(expr.arg)
           [] expr.tag = "BinOp" ->
                 transform_expr_panics(expr.arg_1) \/ transform_expr_panics(expr.arg_2)
           [] OTHER -> FALSE

(* preprocess(forms) panics *)
preprocess_panics(forms) ==
    \E k \in 1..Len(forms) :
        /\ forms[k].tag = "FunDecl"
        /\ \E i \in 1..Len(forms[k].clauses) : \E j \in 1..Len(forms[k].clauses[i].body.exprs) :
              transform_expr_panics(forms[k].clauses[i].body.exprs[j])

-----------------------------------------------------------------------------
(* The ASTs handed to the preprocessor: one function whose body is one or   *)
(* two expressions, most of them calls with a fun as first argument         *)

VarX == Var(2, "X")
VarL == Var(3, "L")
erlang_is_atom(arg) == RemoteCall(2, RemoteId("erlang", "is_atom", 1), <<arg>>)
local_f(arg) == LocalCall(2, Id("f", 1), <<arg>>)

(* bodies of a lambda that convert to a test *)
TestBodies ==
    { VarX, IntLit(2, 0), AtomLit(2, "ok"),
      erlang_is_atom(VarX),
      RemoteCall(2, RemoteId("m", "is_atom", 1), <<VarX>>),
      RemoteCall(2, RemoteId("erlang", "is_record", 2), <<VarX, AtomLit(2, "r")>>),
      Tuple(2, <<VarX, AtomLit(2, "ok")>>),
      BinOp(2, ">", VarX, IntLit(2, 0)),
      BinOp(2, "andalso", erlang_is_atom(VarX), BinOp(2, ">", VarX, IntLit(2, 0))),
      UnOp(2, "not", erlang_is_atom(VarX)) }

(* bodies that do not *)
OtherBodies ==
    { RemoteCall(2, RemoteId("erlang", "length", 1), <<VarX>>),
      erlang_is_atom(local_f(VarX)),
      Tuple(2, <<local_f(VarX)>>),
      BinOp(2, "++", VarX, VarX),
      BinOp(2, "andalso", erlang_is_atom(VarX), local_f(VarX)),
      UnOp(2, "not", local_f(VarX)),
      local_f(VarX),
      RemoteCall(2, ListsPartition, <<RemoteFun(2, RemoteId("erlang", "is_atom", 1)), VarX>>) }

Lambda1(name, pats, guards, exprs) == Lambda(1, name, <<Clause(1, pats, guards, exprs)>>)

RemoteFuns ==
    { RemoteFun(1, RemoteId("erlang", "is_atom", 1)),
      RemoteFun(1, RemoteId("erlang", "is_tuple", 1)),
      RemoteFun(1, RemoteId("erlang", "is_function", 1)),
      RemoteFun(1, RemoteId("erlang", "is_record", 2)),
      RemoteFun(1, RemoteId("erlang", "is_function", 2)),
      RemoteFun(1, RemoteId("erlang", "is_record", 3)),
      RemoteFun(1, RemoteId("erlang", "length", 1)),
      RemoteFun(1, RemoteId("m", "is_atom", 1)),
      RemoteFun(1, RemoteId("m", "f", 1)) }

Funs ==
    RemoteFuns
    \cup { LocalFun(1, Id("is_atom", 1)), Var(1, "F") }
    \cup { Lambda1(None, <<PatVar(1, "X")>>, <<>>, <<e>>) : e \in TestBodies \cup OtherBodies }
    \cup { Lambda1(Some("Self"), <<PatVar(1, "X")>>, <<>>, <<BinOp(2, ">", VarX, IntLit(2, 0))>>),
           Lambda1(None, <<PatWild(1)>>, <<>>, <<AtomLit(2, "true")>>),
           Lambda1(None, <<PatVar(1, "X")>>, <<Guard(<<TestVar(1, "X")>>)>>,
                   <<erlang_is_atom(VarX)>>),
           Lambda1(None, <<PatVar(1, "X"), PatVar(1, "Y")>>, <<>>, <<erlang_is_atom(VarX)>>),
           Lambda1(None, <<>>, <<>>, <<AtomLit(2, "true")>>),
           Lambda1(None, <<PatVar(1, "X")>>, <<>>, <<local_f(VarX), erlang_is_atom(VarX)>>),
           Lambda(1, None, << Clause(1, <<PatVar(1, "X")>>, <<>>, <<erlang_is_atom(VarX)>>),
                              Clause(1, <<PatWild(1)>>, <<>>, <<AtomLit(2, "false")>>) >>) }

partition(f, l) == RemoteCall(1, ListsPartition, <<f, l>>)

PartitionCalls == { partition(f, VarL) : f \in Funs }

FewFuns ==
    { RemoteFun(1, RemoteId("erlang", "is_atom", 1)),
      RemoteFun(1, RemoteId("erlang", "is_record", 2)),
      Lambda1(None, <<PatVar(1, "X")>>, <<>>, <<BinOp(2, ">", VarX, IntLit(2, 0))>>),
      Lambda1(None, <<PatVar(1, "X")>>, <<>>, <<local_f(VarX)>>) }

OtherCalls ==
    { RemoteCall(1, RemoteId("lists", "filter", 2), <<f, VarL>>) : f \in FewFuns }
    \cup { RemoteCall(1, RemoteId("m", "partition", 2), <<f, VarL>>) : f \in FewFuns }
    \cup { RemoteCall(1, RemoteId("lists", "partition", 3), <<f, VarL, VarL>>) : f \in FewFuns }
    \cup { LocalCall(1, Id("partition", 2), <<f, VarL>>) : f \in FewFuns }

NestedCalls ==
    { partition(f, partition(g, VarL)) : f, g \in FewFuns }
    \cup { Block(4, <<partition(f, VarL), partition(g, VarL)>>) : f, g \in FewFuns }
    \cup { Tuple(4, <<partition(f, VarL)>>) : f \in FewFuns }
    \cup { BinOp(4, "++", partition(f, VarL), VarL) : f \in FewFuns }
    \cup { UnOp(4, "not", partition(f, VarL)) : f \in FewFuns }
    \cup { Lambda1(None, <<PatVar(1, "X")>>, <<>>, <<partition(f, VarL)>>) : f \in FewFuns }
    \cup { local_f(partition(f, VarL)) : f \in FewFuns }
    \cup { partition(Lambda1(None, <<PatVar(1, "X")>>, <<>>, <<partition(f, VarL)>>), VarL) :
              f \in FewFuns }

(* calls whose id is lists:partition/2 and whose arguments are not two *)
MalformedCalls ==
    { RemoteCall(1, ListsPartition, <<f>>) : f \in FewFuns }
    \cup { RemoteCall(1, ListsPartition, <<f, VarL, VarL>>) : f \in FewFuns }
    \cup { RemoteCall(1, ListsPartition, <<>>) }

MalformedNested ==
    { local_f(c) : c \in MalformedCalls }
    \cup { partition(Var(1, "F"), RemoteCall(1, ListsPartition, <<VarL>>)),
           partition(Lambda1(None, <<PatVar(1, "X")>>, <<>>,
                             <<RemoteCall(1, ListsPartition, <<VarX>>)>>), VarL) }

Bodies ==
    { <<e>> : e \in PartitionCalls \cup OtherCalls \cup NestedCalls
                    \cup MalformedCalls \cup MalformedNested }
    \cup { <<partition(f, VarL), partition(g, VarL)>> : f, g \in FewFuns }

ASTs == { << ModuleForm(0, "m"), FunDecl(0, Id("f", 1), <<Clause(0, <<PatVar(0, "L")>>, <<>>, b)>>) >>
          : b \in Bodies }

PreprocessInit ==
    /\ env = [m \in Modules |-> AppModule(SrcOk, "none")]
    /\ DriverIdle
    /\ ConvertIdle
    /\ ThreadsIdle
    /\ QueryIdle
    /\ CombineIdle
    /\ SendIdle
    /\ source_ast \in ASTs
    /\ once = None
    /\ twice = None
    /\ panicked = FALSE

(* preprocess(source_ast) *)
Preprocess ==
    /\ source_ast # <<>>
    /\ ~once.some
    /\ ~panicked
    /\ IF preprocess_panics(source_ast)
       THEN panicked' = TRUE /\ UNCHANGED once
       ELSE once' = Some(preprocess(source_ast)) /\ UNCHANGED panicked
    /\ UNCHANGED <<source_ast, twice>>
    /\ UNCHANGED nonpreprocess

(* preprocess is run on what it returned *)
PreprocessAgain ==
    /\ once.some
    /\ ~twice.some
    /\ ~panicked
    /\ IF preprocess_panics(once.val)
       THEN panicked' = TRUE /\ UNCHANGED twice
       ELSE twice' = Some(preprocess(once.val)) /\ UNCHANGED panicked
    /\ UNCHANGED <<source_ast, once>>
    /\ UNCHANGED nonpreprocess

PreprocessNext == Preprocess \/ PreprocessAgain

PreprocessSpec == PreprocessInit /\ [][PreprocessNext]_vars

(* C17: preprocessing what the preprocessor returned changes nothing.       *)
C17_Idempotent == twice.some => twice.val = once.val

(* an AST with two rewritten partition calls, preprocessed twice *)
C17_Witness ==
    /\ twice.some
    /\ once.val # source_ast
    /\ Len(source_ast[2].clauses[1].body.exprs) = 2
    /\ once.val[2].clauses[1].body.exprs[1] # source_ast[2].clauses[1].body.exprs[1]
    /\ once.val[2].clauses[1].body.exprs[2] # source_ast[2].clauses[1].body.exprs[2]

(* An expression built of what converts to a test: variables, atom and      *)
(* integer literals, calls of allow-listed predicates, tuples, and          *)
(* allow-listed operators, over such expressions                            *)
RECURSIVE TestReducible(_)
TestReducible(e) ==
    CASE e.tag \in {"Var", "AtomLit", "IntLit"} -> TRUE
      [] e.tag = "RemoteCall" ->
            /\ Id(e.id.name, e.id.arity) \in PREDICATES
            /\ \A i \in 1..Len(e.args) : TestReducible(e.args[i])
      [] e.tag = "Tuple" -> \A i \in 1..Len(e.elems) : TestReducible(e.elems[i])
      [] e.tag = "UnOp" -> e.op \in UNOP /\ TestReducible(e.arg)
      [] e.tag = "BinOp" -> e.op \in BINOP /\ TestReducible(e.arg_1) /\ TestReducible(e.arg_2)
      [] OTHER -> FALSE

(* A reference to a unary predicate of the allow-list *)
UnaryPredicateRef(f) ==
    /\ f.tag = "RemoteFun"
    /\ f.id.arity = 1
    /\ Id(f.id.name, 1) \in PREDICATES

(* A single-clause lambda whose body is one test-reducible expression *)
SingleTestLambda(f) ==
    /\ f.tag = "Lambda"
    /\ Len(f.clauses) = 1
    /\ Len(f.clauses[1].body.exprs) = 1
    /\ TestReducible(f.clauses[1].body.exprs[1])

(* A call the preprocessor has a rule for *)
PartitionPattern(e) ==
    /\ e.tag = "RemoteCall"
    /\ e.id = ListsPartition
    /\ UnaryPredicateRef(e.args[1]) \/ SingleTestLambda(e.args[1])

(* The pattern occurs in e, at any depth *)
RECURSIVE HasPartitionPattern(_)
HasPartitionPattern(e) ==
    \/ PartitionPattern(e)
    \/ CASE e.tag = "Block" ->
              \E i \in 1..Len(e.body.exprs) : HasPartitionPattern(e.body.exprs[i])
         [] e.tag = "Tuple" -> \E i \in 1..Len(e.elems) : HasPartitionPattern(e.elems[i])
         [] e.tag \in {"LocalCall", "RemoteCall"} ->
              \E i \in 1..Len(e.args) : HasPartitionPattern(e.args[i])
         [] e.tag = "Lambda" ->
              \E i \in 1..Len(e.clauses) : \E j \in 1..Len(e.clauses[i].body.exprs) :
                  HasPartitionPattern(e.clauses[i].body.exprs[j])
         [] e.tag = "UnOp" -> HasPartitionPattern(e.arg)
         [] e.tag = "BinOp" -> HasPartitionPattern(e.arg_1) \/ HasPartitionPattern(e.arg_2)
         [] OTHER -> FALSE

AstHasPartitionPattern(forms) ==
    \E k \in 1..Len(forms) :
        /\ forms[k].tag = "FunDecl"
        /\ \E i \in 1..Len(forms[k].clauses) : \E j \in 1..Len(forms[k].clauses[i].body.exprs) :
              HasPartitionPattern(forms[k].clauses[i].body.exprs[j])

SourceExprs == source_ast[2].clauses[1].body.exprs
OnceExprs == once.val[2].clauses[1].body.exprs

(* The names of the allow-listed predicates of arity 1 *)
UnaryPredicates == { id.name : id \in { i \in PREDICATES : i.arity = 1 } }

IsAtomLit(exprs, s) ==
    /\ Len(exprs) = 1
    /\ exprs[1].tag = "AtomLit"
    /\ exprs[1].s = s

(* f is fun(V) when p(V) -> true; (_) -> false end *)
EtaExpansionOf(f, p) ==
    /\ f.tag = "Lambda"
    /\ Len(f.clauses) = 2
    /\ Len(f.clauses[1].pats) = 1
    /\ f.clauses[1].pats[1].tag = "PatVar"
    /\ Len(f.clauses[1].guards) = 1
    /\ Len(f.clauses[1].guards[1].tests) = 1
    /\ LET test == f.clauses[1].guards[1].tests[1]
       IN /\ test.tag = "TestCall"
          /\ test.id = Id(p, 1)
          /\ Len(test.args) = 1
          /\ test.args[1].tag = "TestVar"
          /\ test.args[1].v = f.clauses[1].pats[1].n
    /\ IsAtomLit(f.clauses[1].body.exprs, "true")
    /\ Len(f.clauses[2].pats) = 1
    /\ f.clauses[2].pats[1].tag \in {"PatVar", "PatWild"}
    /\ f.clauses[2].guards = <<>>
    /\ IsAtomLit(f.clauses[2].body.exprs, "false")

(* A lists:partition/2 call whose first argument is a function reference *)
PartitionOfRemoteFun(e) ==
    /\ e.tag = "RemoteCall"
    /\ e.id = ListsPartition
    /\ e.args[1].tag = "RemoteFun"

(* C19: for every allow-listed arity-1 predicate p, preprocessing           *)
(* lists:partition(fun erlang:p/1, L) replaces the first argument by a      *)
(* lambda of exactly two clauses, the first with one variable pattern V,    *)
(* the single guard test p(V) and body true, the second a guard-less        *)
(* catch-all with body false, and leaves L and the id of the call           *)
(* unchanged; a reference to an allow-listed predicate of arity 2 or 3, or  *)
(* to any other function, is left unchanged.                                *)
C19_EtaExpandsErlangPredicates ==
    once.some =>
        \A i \in 1..Len(SourceExprs) :
            PartitionOfRemoteFun(SourceExprs[i]) =>
                /\ OnceExprs[i].tag = "RemoteCall"
                /\ OnceExprs[i].id = SourceExprs[i].id
                /\ OnceExprs[i].args[2] = SourceExprs[i].args[2]
                /\ IF /\ SourceExprs[i].args[1].id.module = "erlang"
                      /\ SourceExprs[i].args[1].id.arity = 1
                      /\ SourceExprs[i].args[1].id.name \in UnaryPredicates
                   THEN EtaExpansionOf(OnceExprs[i].args[1], SourceExprs[i].args[1].id.name)
                   ELSE OnceExprs[i].args[1] = SourceExprs[i].args[1]

(* The part of C19 the code keeps: references to erlang's own predicates    *)
(* and to functions whose name and arity are not allow-listed               *)
C19_ErlangReferences ==
    once.some =>
        \A i \in 1..Len(SourceExprs) :
            (/\ PartitionOfRemoteFun(SourceExprs[i])
             /\ \/ SourceExprs[i].args[1].id.module = "erlang"
                \/ IdOf(SourceExprs[i].args[1].id) \notin PREDICATES) =>
                /\ OnceExprs[i].id = SourceExprs[i].id
                /\ OnceExprs[i].args[2] = SourceExprs[i].args[2]
                /\ IF /\ SourceExprs[i].args[1].id.arity = 1
                      /\ SourceExprs[i].args[1].id.name \in UnaryPredicates
                   THEN EtaExpansionOf(OnceExprs[i].args[1], SourceExprs[i].args[1].id.name)
                   ELSE OnceExprs[i].args[1] = SourceExprs[i].args[1]

(* fun m:is_atom/1, a function of another module, has been eta-expanded *)
C19_OtherModuleRewritten ==
    /\ once.some
    /\ SourceExprs = <<partition(RemoteFun(1, RemoteId("m", "is_atom", 1)), VarL)>>
    /\ EtaExpansionOf(OnceExprs[1].args[1], "is_atom")

(* What C20 lists: variables, atom and integer literals, calls of           *)
(* allow-listed predicates and allow-listed operators, over such            *)
(* expressions                                                              *)
RECURSIVE ListedReducible(_)
ListedReducible(e) ==
    CASE e.tag \in {"Var", "AtomLit", "IntLit"} -> TRUE
      [] e.tag = "RemoteCall" ->
            /\ Id(e.id.name, e.id.arity) \in PREDICATES
            /\ \A i \in 1..Len(e.args) : ListedReducible(e.args[i])
      [] e.tag = "UnOp" -> e.op \in UNOP /\ ListedReducible(e.arg)
      [] e.tag = "BinOp" ->
            e.op \in BINOP /\ ListedReducible(e.arg_1) /\ ListedReducible(e.arg_2)
      [] OTHER -> FALSE

(* t is the expression e, as a test *)
RECURSIVE IsTestOf(_, _)
IsTestOf(t, e) ==
    /\ t.location = e.location
    /\ CASE e.tag = "Var" -> t.tag = "TestVar" /\ t.v = e.n
         [] e.tag = "AtomLit" -> t.tag = "TestAtom" /\ t.s = e.s
         [] e.tag = "IntLit" -> t.tag = "TestNumber" /\ t.lit = e.value
         [] e.tag = "RemoteCall" ->
               /\ t.tag = "TestCall"
               /\ t.id = Id(e.id.name, e.id.arity)
               /\ Len(t.args) = Len(e.args)
               /\ \A i \in 1..Len(e.args) : IsTestOf(t.args[i], e.args[i])
         [] e.tag = "Tuple" ->
               /\ t.tag = "TestTuple"
               /\ Len(t.elems) = Len(e.elems)
               /\ \A i \in 1..Len(e.elems) : IsTestOf(t.elems[i], e.elems[i])
         [] e.tag = "UnOp" -> t.tag = "TestUnOp" /\ t.op = e.op /\ IsTestOf(t.arg, e.arg)
         [] e.tag = "BinOp" ->
               /\ t.tag = "TestBinOp"
               /\ t.op = e.op
               /\ IsTestOf(t.arg_1, e.arg_1)
               /\ IsTestOf(t.arg_2, e.arg_2)
         [] OTHER -> FALSE

(* A lists:partition/2 call whose first argument is a single-clause lambda  *)
(* of one pattern and one body expression                                   *)
PartitionOfLambda(e) ==
    /\ e.tag = "RemoteCall"
    /\ e.id = ListsPartition
    /\ e.args[1].tag = "Lambda"
    /\ Len(e.args[1].clauses) = 1
    /\ Len(e.args[1].clauses[1].pats) = 1
    /\ Len(e.args[1].clauses[1].body.exprs) = 1

(* g is f rewritten: fun(P) when E -> true; (Fresh) -> false end *)
IsRewriteOf(g, f) ==
    /\ g.tag = "Lambda"
    /\ Len(g.clauses) = 2
    /\ g.clauses[1].pats = f.clauses[1].pats
    /\ Len(g.clauses[1].guards) = 1
    /\ Len(g.clauses[1].guards[1].tests) = 1
    /\ IsTestOf(g.clauses[1].guards[1].tests[1], f.clauses[1].body.exprs[1])
    /\ IsAtomLit(g.clauses[1].body.exprs, "true")
    /\ Len(g.clauses[2].pats) = 1
    /\ g.clauses[2].pats[1].tag = "PatVar"
    /\ \E k \in 1..Len(PPNames) : g.clauses[2].pats[1].n = PPNames[k]
    /\ g.clauses[2].guards = <<>>
    /\ IsAtomLit(g.clauses[2].body.exprs, "false")

MalformedPartitionAtTop ==
    \E i \in 1..Len(SourceExprs) :
        /\ SourceExprs[i].tag = "RemoteCall"
        /\ SourceExprs[i].id = ListsPartition
        /\ Len(SourceExprs[i].args) # 2

(* C21: preprocess is total: for every input AST it returns an AST and      *)
(* never fails or panics, a call whose id is lists:partition/2 and whose    *)
(* arguments are not exactly two included; on such a shape it is the        *)
(* identity.                                                                *)
C21_TotalAndIdentity ==
    /\ ~panicked
    /\ (once.some /\ MalformedPartitionAtTop) => once.val = source_ast

(* lists:partition(F) has made preprocess panic: no AST came back *)
C21_PanicOnOneArgument ==
    /\ panicked
    /\ ~once.some
    /\ SourceExprs = <<RemoteCall(1, ListsPartition, <<RemoteFun(1, RemoteId("erlang", "is_atom", 1))>>)>>

-----------------------------------------------------------------------------
(* IpcHandle::send_bytes on payloads of zero to three chunks.  A payload is  *)
(* held as its length and the rule that gives its bytes, and a chunk        *)
(* written as the slice of the payload it is: where it starts, how long it  *)
(* is, and whether its bytes are the payload's bytes at that place          *)

(* n bytes, the i-th being i * k modulo 256 *)
Bytes(n, k) == [i \in 1..n |-> (i * k) % 256]

PayloadLengths == {0, 1, 2, 3, 65535, 65536, 65537, 131071, 131072, 131073}

Payloads == { [len |-> n, seed |-> k] : n \in PayloadLengths, k \in {1, 3, 5} }

PayloadBytes(p) == Bytes(p.len, p.seed)

WroteSlice(at, len, intact) == [op |-> "write", at |-> at, len |-> len, intact |-> intact]

(* The events of a call of send_bytes(msg), each chunk written told as a    *)
(* slice of msg; at is how many bytes were written before it                *)
RECURSIVE Slices(_, _, _)
Slices(log, msg, at) ==
    IF log = <<>> THEN <<>>
    ELSE IF Head(log).op = "write"
    THEN LET bytes == Head(log).bytes
         IN  <<WroteSlice(at, Len(bytes), bytes = SubSeq(msg, at + 1, at + Len(bytes)))>>
                \o Slices(Tail(log), msg, at + Len(bytes))
    ELSE <<Head(log)>> \o Slices(Tail(log), msg, at)

SendBytesInit ==
    /\ env = [m \in Modules |-> AppModule(SrcOk, "none")]
    /\ DriverIdle
    /\ ConvertIdle
    /\ ThreadsIdle
    /\ QueryIdle
    /\ CombineIdle
    /\ PreprocessIdle
    /\ payload \in Payloads
    /\ wire = None

(* send_bytes(payload), of which `written` steps succeed *)
SendBytes(written) ==
    /\ ~wire.some
    /\ payload \in Payloads
    /\ written <= Len(chunks(PayloadBytes(payload), chunk_size)) + 1
    /\ LET msg == PayloadBytes(payload)
           sent == send_bytes(msg, written)
       IN  wire' = Some([res |-> sent.res, events |-> Slices(sent.events, msg, 0)])
    /\ UNCHANGED payload
    /\ UNCHANGED nonsend

MaxChunks == 3

SendBytesNext == \E written \in 0..(MaxChunks + 1) : SendBytes(written)

SendBytesSpec == SendBytesInit /\ [][SendBytesNext]_vars

(* How many bytes the write events of a log wrote *)
WrittenLen(log) == IF log = <<>> \/ \A i \in 1..Len(log) : log[i].op # "write" THEN 0
                   ELSE LET last == CHOOSE i \in 1..Len(log) :
                                       /\ log[i].op = "write"
                                       /\ \A j \in (i + 1)..Len(log) : log[j].op # "write"
                        IN  log[last].at + log[last].len

(* The writes are chunks of at most 65,536 bytes, each the bytes of the     *)
(* payload that follow those written before it, all of the payload when     *)
(* the call succeeds                                                        *)
ChunksInOrder ==
    /\ \A i \in 1..Len(wire.val.events) :
          wire.val.events[i].op = "write" =>
              /\ wire.val.events[i].len <= 65536
              /\ wire.val.events[i].len > 0
              /\ wire.val.events[i].intact
    /\ WrittenLen(wire.val.events) <= payload.len
    /\ wire.val.res.ok => WrittenLen(wire.val.events) = payload.len

(* C22 as stated: the bytes are written in chunks of at most 65,536 bytes   *)
(* in their original order, and the writer is flushed after each chunk and  *)
(* after the final chunk.                                                   *)
C22_FlushAfterEachChunk ==
    (wire.some /\ wire.val.res.ok) =>
        /\ ChunksInOrder
        /\ wire.val.events # <<>>
        /\ wire.val.events[Len(wire.val.events)].op = "flush"
        /\ \A i \in 1..Len(wire.val.events) :
              wire.val.events[i].op = "write" => wire.val.events[i + 1].op = "flush"

(* C22, amended: the bytes are written in chunks of at most 65,536 bytes in *)
(* their original order, and the writer is flushed once, after the final    *)
(* chunk; no flush comes between two chunks, and none when a write failed.  *)
C22_FlushAfterFinalChunk ==
    wire.some =>
        /\ ChunksInOrder
        /\ \A i \in 1..Len(wire.val.events) :
              wire.val.events[i].op = "flush" =>
                  /\ i = Len(wire.val.events)
                  /\ wire.val.res.ok
        /\ wire.val.res.ok =>
              /\ wire.val.events # <<>>
              /\ wire.val.events[Len(wire.val.events)].op = "flush"

(* 131,073 bytes went out as chunks of 65,536, 65,536 and 1 bytes, and one  *)
(* flush                                                                    *)
C22_Witness ==
    /\ wire.some
    /\ wire.val.res.ok
    /\ payload.len = 131073
    /\ wire.val.events = <<WroteSlice(0, 65536, TRUE), WroteSlice(65536, 65536, TRUE),
                           WroteSlice(131072, 1, TRUE), Flushed>>

-----------------------------------------------------------------------------
(* Spawning the external process                                            *)

(* C26: spawning retries, after a short sleep, if and only if the spawn     *)
(* failed with the 'executable file busy' error, and returns an error at    *)
(* the first spawn failure of any other kind; it ends with a child as soon  *)
(* as a spawn succeeds; the retries are not counted.                        *)
C26_RetryIffBusy ==
    [][ (pc = "spawn" /\ io' # io) =>
            /\ Len(io') > Len(io)
            /\ SubSeq(io', 1, Len(io)) = io
            /\ io'[Len(io) + 1].op = "spawn"
            /\ CASE io'[Len(io) + 1].res = "ExecutableFileBusy" ->
                      /\ io' = io \o <<Spawned("ExecutableFileBusy"), Slept>>
                      /\ pc' = "spawn"
                      /\ result' = result
                 [] io'[Len(io) + 1].res = "ok" ->
                      /\ io' = io \o <<Spawned("ok")>>
                      /\ pc' = "top_check"
                      /\ result' = result
                 [] OTHER ->
                      /\ Len(io') = Len(io) + 1
                      /\ pc' = "returned"
                      /\ result'.some
                      /\ result'.val.tag = "Error"
                      /\ result'.val.msg[2] = <<"starting eqWAlizer process">>
      ]_vars

(* The executable was busy twice, each time slept on, and then spawned *)
C26_Witness ==
    /\ pc = "top_check"
    /\ io = <<Spawned("ExecutableFileBusy"), Slept, Spawned("ExecutableFileBusy"), Slept,
              Spawned("ok")>>

-----------------------------------------------------------------------------
(* The lock of the session handle                                           *)

(* The step computes a derivation stage: the answer to a GetAstBytes, or    *)
(* the prefetch of a Dependencies                                           *)
DerivationStep ==
    /\ pc = "sub_recv"
    /\ \E i \in 1..Len(io') : io'[i].op \in EqWAlizerASTFormat

(* C23 as stated: the lock of a session handle is acquired for the duration *)
(* of one send/receive exchange only: it is released between exchanges and  *)
(* is not held while a derivation stage is being computed.                  *)
C23_LockPerExchange ==
    [][ /\ DerivationStep => (~lock /\ ~lock')
        /\ pc' \in {"top_check", "sub_check"} => ~lock'
      ]_vars

(* C23, amended: at top level the lock is taken for one receive or one send *)
(* and is free between them; the sub-loop of a module takes it once, before *)
(* it sends ELPEnteringModule, and holds it until it returns or unwinds:    *)
(* between its exchanges, and while a derivation stage is computed.         *)
C23_LockPerSubLoop ==
    [][ /\ lock' <=> pc' \in SubPcs
        /\ DerivationStep => (lock /\ lock')
      ]_vars

(* The transitive stubs of b and a were prefetched with the lock held, and  *)
(* it is still held before the next receive                                 *)
C23_Witness ==
    /\ pc = "sub_check"
    /\ lock
    /\ io = <<Received(Dependencies(<<"b", "a">>)), Called("TransitiveStub", "b"),
              Called("TransitiveStub", "a")>>

-----------------------------------------------------------------------------
(* Lockstep                                                                 *)

IsReceipt(e) == e.op \in {"recv", "recv_newline"}

(* C24: the driver converses in strict lockstep: in a session it never      *)
(* sends two control messages in a row without receiving a line from the    *)
(* external process in between, and it sends raw bytes only directly after  *)
(* the acknowledging line that follows a GetAstBytesReply with a non-zero   *)
(* length.  (io starts anew with every control message received.)           *)
C24_Lockstep ==
    caller # "direct" =>
        /\ \A j \in 1..Len(io) :
              io[j].op = "send" =>
                  /\ \E k \in 1..(j - 1) : IsReceipt(io[k])
                  /\ \A i \in 1..(j - 1) :
                        io[i].op = "send" => \E k \in (i + 1)..(j - 1) : IsReceipt(io[k])
        /\ \A j \in 1..Len(io) :
              io[j].op = "write" =>
                  \E k \in 2..(j - 1) :
                      /\ io[k] = ReceivedNewline
                      /\ io[k - 1].op = "send"
                      /\ io[k - 1].msg.tag = "GetAstBytesReply"
                      /\ io[k - 1].msg.ast_bytes_len > 0
                      /\ \A i \in (k + 1)..(j - 1) : io[i].op = "write"

(* a's forms were asked for, announced, acknowledged and streamed, and the  *)
(* driver is about to receive again                                         *)
C24_Witness ==
    /\ pc = "sub_check"
    /\ caller = "typecheck"
    /\ Len(io) = 6
    /\ io[1] = Received(GetAstBytes("a", "ConvertedForms"))
    /\ io[3].op = "send"
    /\ io[3].msg.ast_bytes_len > 0
    /\ io[4] = ReceivedNewline
    /\ io[5].op = "write"
    /\ io[6] = Flushed

-----------------------------------------------------------------------------
(* A session with a process that may stall.  Every blocking call of the     *)
(* driver comes back, with a value or with the error of its timeout, so     *)
(* the driver always takes its next step.                                   *)

LiveLines ==
    { EnteringModule("a"), EnteringModule("b"),
      GetAstBytes("a", "ConvertedForms"), GetAstBytes("b", "ConvertedForms"),
      GetAstBytes("a", "TransitiveStub"), Dependencies(<<"b", "a">>),
      EqwalizingStart("a"), Done(EmptyMap, EmptyMap), Malformed, ReadFailed }

LiveInit ==
    /\ env = [m \in Modules |->
                 IF m = "a" THEN AppModule(SrcOk, "none") ELSE AppModule(Err(ParseError), "none")]
    /\ DriverIdle
    /\ ConvertIdle
    /\ ThreadsIdle
    /\ QueryIdle
    /\ CombineIdle
    /\ PreprocessIdle
    /\ SendIdle

(* The steps of the driver thread *)
DriverStep ==
    \/ \E outcome \in SpawnOutcomes : Spawn(outcome)
    \/ TopCheck
    \/ \E line \in ReadLine(LiveLines, stalled) : TopReceive(line)
    \/ \E works \in BOOLEAN : TopSendExiting(works)
    \/ \E works \in BOOLEAN : SubSendEntering(works)
    \/ SubCheck
    \/ \E line \in ReadLine(LiveLines, stalled) : SubReceive(line)
    \/ \E works \in BOOLEAN : SubSendReply(works)
    \/ \E line \in ReadLine({BlankLine, ReadFailed}, stalled) : SubReceiveNewline(line)
    \/ \E written \in 0..MaxWritten : SubSendBytes(written)

LiveNext ==
    \/ \E exe \in BOOLEAN : Typecheck(exe)
    \/ DriverStep
    \/ Cancel
    \/ Stall

LiveSpec == LiveInit /\ [][LiveNext]_vars /\ WF_vars(DriverStep)

(* C25 as stated: if the external process stops writing or stops reading at *)
(* any point of the conversation, the blocked receive or send fails after   *)
(* its timeout and the session eventually ends with a terminal Error; the   *)
(* driver never waits forever on a stalled channel.                         *)
C25_StallEndsInError ==
    (stalled /\ InTypecheck) ~> (pc = "returned" /\ result.some /\ result.val.tag = "Error")

(* C25, amended: once the external process has stalled the session          *)
(* eventually ends, and never with a Diagnostics: typecheck returns a       *)
(* terminal Error or NoAst, unless cancellation unwinds it first.           *)
C25_StallEnds ==
    (stalled /\ InTypecheck) ~>
        \/ pc = "unwound"
        \/ pc = "returned" /\ result.some /\ result.val.tag \in {"Error", "NoAst"}

(* The process stalled and the read of the next message failed at its       *)
(* timeout: typecheck returned an Error                                     *)
C25_Witness ==
    /\ stalled
    /\ pc = "returned"
    /\ io = <<Received(ReadFailed)>>
    /\ result.some
    /\ result.val.tag = "Error"

-----------------------------------------------------------------------------
(* C27: whatever is requested, how often and in what order (a later session *)
(* asks the same database again), the body of each derivation stage, from   *)
(* converted_stub to transitive_stub_bytes, is executed at most once per    *)
(* module while the inputs are unchanged, and a request for a computed      *)
(* stage is answered from the memo, whether the value is Ok or Err: it adds *)
(* no execution and no checker run, and leaves the memo as it is.           *)
C27_ComputedOncePerKey ==
    /\ \A k \in QueryKeys : computed[k] <= 1
    /\ \A k \in QueryKeys : memo[k].some <=> computed[k] = 1
    /\ \A i, j \in 1..Len(ran) : ran[i] = ran[j] => i = j

(* A failed stage is asked for again: its body ran once and the request is  *)
(* about to be answered from the memo                                       *)
C27_Witness ==
    /\ stack = << <<"covariant_stub", "a">> >>
    /\ memo[<<"covariant_stub", "a">>].some
    /\ ~memo[<<"covariant_stub", "a">>].val.ok
    /\ computed[<<"covariant_stub", "a">>] = 1
    /\ memo[<<"transitive_stub_bytes", "a">>].some
    /\ ~memo[<<"transitive_stub_bytes", "a">>].val.ok

-----------------------------------------------------------------------------
(* Sessions one after the other on the same database: what typecheck owns   *)
(* (the process, its handle, the accumulated diagnostics) ends with the     *)
(* call, while the memo of module_diagnostics and the handle registry       *)
(* belong to the database and stay                                          *)

SessionEnd ==
    /\ pc \in {"returned", "unwound"}
    /\ UNCHANGED nondriver
    /\ pc' = "idle"
    /\ caller' = "none"
    /\ module' = ""
    /\ lock' = FALSE
    /\ diagnostics' = DiagDefault
    /\ result' = None
    /\ pending' = NoPending
    /\ io' = <<>>
    /\ cancelled' = FALSE
    /\ stalled' = FALSE
    /\ UNCHANGED <<env, registry, diags_memo>>

SessionsNext ==
    \/ LiveNext
    \/ SessionEnd

SessionsSpec == LiveInit /\ [][SessionsNext]_vars

(* The step in which do_typecheck reads EnteringModule{m} *)
EnteredModule(m) ==
    /\ pc = "top_recv"
    /\ pc' # "top_recv"
    /\ io' # <<>>
    /\ io'[1] = Received(EnteringModule(m))

(* C28 as stated: no typecheck result is served from a memo: every          *)
(* invocation of typecheck runs a fresh conversation, and for every         *)
(* EnteringModule{M} the driver reads, the sub-loop of M is executed, with  *)
(* ELPEnteringModule sent before anything else for M, also when             *)
(* diagnostics of M were computed earlier in this or a previous session.    *)
C28_SubLoopAlwaysExecuted ==
    [][ /\ (pc = "idle" /\ pc' # "idle") => (pc' = "spawn" \/ result' = Some(DiagDefault))
        /\ \A m \in Modules : EnteredModule(m) => pc' = "sub_enter_send"
      ]_vars

(* C28, amended: every invocation of typecheck runs a fresh conversation,   *)
(* whatever is memoized.  The value of module_diagnostics is memoized: the  *)
(* sub-loop of M is executed, ELPEnteringModule first, only if the database *)
(* holds no value for M; it memoizes the value the sub-loop ends with; and  *)
(* if it holds one, from this session or an earlier one, that value is      *)
(* combined into the accumulated diagnostics with no sub-loop and nothing   *)
(* sent but the ELPExitingModule that follows a non-terminal result.        *)
C28_SubLoopUnlessMemoized ==
    [][ /\ (pc = "idle" /\ pc' # "idle") => (pc' = "spawn" \/ result' = Some(DiagDefault))
        /\ \A m \in Modules : EnteredModule(m) =>
              IF diags_memo[m].some
              THEN /\ io' = <<Received(EnteringModule(m))>>
                   /\ diags_memo' = diags_memo
                   /\ diagnostics' = combine(diagnostics, diags_memo[m].val)
                   /\ pc' = IF IsTerminal(diagnostics') THEN "returned" ELSE "top_exit_send"
              ELSE pc' = "sub_enter_send" /\ lock' /\ diags_memo' = diags_memo
        /\ (pc \in SubPcs /\ pc' \in {"top_exit_send", "returned"}) =>
              /\ ~diags_memo[module].some
              /\ diags_memo'[module].some
              /\ diagnostics' = combine(diagnostics, diags_memo'[module].val)
      ]_vars

(* In a later session EnteringModule{a} was answered from the memo of an    *)
(* earlier one: nothing was done but to read the message, and               *)
(* ELPExitingModule is next; the handle of b is what a cancelled earlier    *)
(* session left registered                                                  *)
C28_Witness ==
    /\ pc = "top_exit_send"
    /\ io = <<Received(EnteringModule("a"))>>
    /\ diags_memo["a"].some
    /\ diagnostics = diags_memo["a"].val
    /\ registry["b"] = "handle"

-----------------------------------------------------------------------------
(* The step in which the sub-loop reads Dependencies{ms} *)
DependenciesStep(ms) ==
    /\ pc = "sub_recv"
    /\ pc' # "sub_recv"
    /\ io' # <<>>
    /\ io'[1] = Received(Dependencies(ms))

(* The step in which the sub-loop reads GetAstBytes{d, TransitiveStub} *)
TransitiveStubStep(d) ==
    /\ pc = "sub_recv"
    /\ pc' # "sub_recv"
    /\ io' # <<>>
    /\ io'[1] = Received(GetAstBytes(d, "TransitiveStub"))

(* C29: on Dependencies{modules} the sub-loop asks for the transitive stub  *)
(* bytes of every listed module, in order, sends nothing, keeps the lock,   *)
(* leaves diagnostics, registry and result as they are whether or not a     *)
(* derivation failed, and goes on to its next receive.  A GetAstBytes       *)
(* {D, TransitiveStub} in the sub-loop, for a module D whose derivation     *)
(* fails, is answered from that failure: GetAstBytesReply{0} for            *)
(* ModuleNotFound, CannotCompleteRequest otherwise.                         *)
C29_DependenciesPrefetch ==
    [][ /\ \A ms \in {<<>>, <<"a">>, <<"b", "a">>} : DependenciesStep(ms) =>
              /\ pc' = "sub_check"
              /\ io' = <<Received(Dependencies(ms))>>
                          \o [i \in 1..Len(ms) |-> Called("TransitiveStub", ms[i])]
              /\ lock'
              /\ UNCHANGED <<env, caller, module, registry, diagnostics, result, pending,
                             diags_memo>>
        /\ \A d \in Modules :
              (TransitiveStubStep(d) /\ ~transitive_stub_bytes(env, d).ok) =>
                 /\ pc' = "sub_reply_send"
                 /\ pending'.reply =
                       IF transitive_stub_bytes(env, d).err.kind = "ModuleNotFound"
                       THEN GetAstBytesReply(0) ELSE CannotCompleteRequest
                 /\ pending'.kind = "return" =>
                       pending'.ret \in {NoAst(d),
                                         DiagError(ErrorToString(transitive_stub_bytes(env, d).err))}
      ]_vars

(* Dependencies{b, a} was read while the transitive stub of b cannot be     *)
(* derived: both derivations were asked for, nothing was sent, and the      *)
(* sub-loop is at its next turn                                             *)
C29_Witness ==
    /\ pc = "sub_check"
    /\ lock
    /\ io = <<Received(Dependencies(<<"b", "a">>)), Called("TransitiveStub", "b"),
              Called("TransitiveStub", "a")>>
    /\ ~transitive_stub_bytes(env, "b").ok
    /\ transitive_stub_bytes(env, "b").err.kind # "ModuleNotFound"
    /\ transitive_stub_bytes(env, "a").ok

-----------------------------------------------------------------------------
(* The messages do_typecheck has no arm for, and the one                    *)
(* get_module_diagnostics has no arm for                                    *)
UnexpectedAtTop == { msg \in MsgFromEqWAlizer : msg.tag \notin {"EnteringModule", "Done"} }
UnexpectedInSubLoop == { msg \in MsgFromEqWAlizer : msg.tag = "EnteringModule" }

(* The step in which the loop at pc p reads msg *)
ReadStep(p, msg) ==
    /\ pc = p
    /\ pc' # p
    /\ io' # <<>>
    /\ io'[1] = Received(msg)

(* C30: a GetAstBytes, EqwalizingStart, EqwalizingDone or Dependencies read *)
(* at top level, and an EnteringModule read in the sub-loop, is ignored:    *)
(* the step does nothing but read it, so nothing is sent and no query or    *)
(* hook is called, the accumulated diagnostics, the handle registry, the    *)
(* lock and the memo are as before, nothing is returned, and the loop is at *)
(* its next turn.                                                           *)
C30_WrongLoopIgnored ==
    [][ /\ \A msg \in UnexpectedAtTop : ReadStep("top_recv", msg) =>
              /\ pc' = "top_check"
              /\ io' = <<Received(msg)>>
              /\ UNCHANGED <<env, caller, module, registry, lock, diagnostics, result, pending,
                             diags_memo>>
        /\ \A msg \in UnexpectedInSubLoop : ReadStep("sub_recv", msg) =>
              /\ pc' = "sub_check"
              /\ io' = <<Received(msg)>>
              /\ UNCHANGED <<env, caller, module, registry, lock, diagnostics, result, pending,
                             diags_memo>>
      ]_vars

(* After a module gave diagnostics, a GetAstBytes was read at top level:    *)
(* the loop is at its next turn with the diagnostics it had                 *)
C30_Witness ==
    /\ pc = "top_check"
    /\ io = <<Received(GetAstBytes("a", "ConvertedForms"))>>
    /\ diagnostics = Diagnostics("a" :> <<"d1">>, "a" :> <<"t1">>)
    /\ registry = [m \in Modules |-> "none"]
    /\ ~lock

(* While the sub-loop of b runs, an EnteringModule{a} was read and ignored   *)
C30_WitnessSubLoop ==
    /\ pc = "sub_check"
    /\ module = "b"
    /\ io = <<Received(EnteringModule("a"))>>
    /\ registry = [m \in Modules |-> IF m = "b" THEN "handle" ELSE "none"]
    /\ lock

-----------------------------------------------------------------------------
(* The synthetic names of an AST, one per rewritten fun, left to right: a   *)
(* rewritten fun is a lambda of two clauses whose second clause has one     *)
(* pattern, a variable named by the preprocessor                            *)
IsSynthetic(n) == \E i \in 1..Len(PPNames) : PPNames[i] = n

RECURSIVE SyntheticOfExpr(_)
RECURSIVE SyntheticOfExprs(_)
RECURSIVE SyntheticOfClauses(_)

SyntheticOfExprs(exprs) ==
    IF exprs = <<>> THEN <<>>
    ELSE SyntheticOfExpr(Head(exprs)) \o SyntheticOfExprs(Tail(exprs))

SyntheticOfClauses(clauses) ==
    IF clauses = <<>> THEN <<>>
    ELSE SyntheticOfExprs(Head(clauses).body.exprs) \o SyntheticOfClauses(Tail(clauses))

SyntheticOfExpr(expr) ==
    CASE expr.tag = "Lambda" ->
            (IF /\ Len(expr.clauses) = 2
                /\ Len(expr.clauses[2].pats) = 1
                /\ expr.clauses[2].pats[1].tag = "PatVar"
                /\ IsSynthetic(expr.clauses[2].pats[1].n)
             THEN <<expr.clauses[2].pats[1].n>> ELSE <<>>)
            \o SyntheticOfClauses(expr.clauses)
      [] expr.tag = "Block" -> SyntheticOfExprs(expr.body.exprs)
      [] expr.tag = "Tuple" -> SyntheticOfExprs(expr.elems)
      [] expr.tag \in {"LocalCall", "RemoteCall"} -> SyntheticOfExprs(expr.args)
      [] expr.tag = "UnOp" -> SyntheticOfExpr(expr.arg)
      [] expr.tag = "BinOp" -> SyntheticOfExpr(expr.arg_1) \o SyntheticOfExpr(expr.arg_2)
      [] OTHER -> <<>>

(* How many funs a pass rewrote: the arguments of partition calls that are  *)
(* not what they were                                                       *)
RECURSIVE RewritesOfExprs(_, _)
RewritesOfExprs(before, after) ==
    IF before = <<>> THEN 0
    ELSE (IF Head(before) # Head(after) THEN 1 ELSE 0)
         + RewritesOfExprs(Tail(before), Tail(after))

(* C31: within one pass the k-th name generated is $pp followed by k - 1,   *)
(* so the rewrites of one pass introduce names that differ from each other, *)
(* and every pass starts again at $pp0.                                     *)
C31_FreshNamesInOrder ==
    /\ once.some =>
          LET names == SyntheticOfExprs(OnceExprs)
          IN  /\ SyntheticOfExprs(SourceExprs) = <<>>
              /\ \A k \in 1..Len(names) : names[k] = PPNames[k]
              /\ \A i, j \in 1..Len(names) : names[i] = names[j] => i = j
              /\ Len(SourceExprs) = 2 =>
                    Len(names) >= RewritesOfExprs(SourceExprs, OnceExprs)
    /\ twice.some =>
          LET names == SyntheticOfExprs(twice.val[2].clauses[1].body.exprs)
          IN  \A k \in 1..Len(names) : names[k] = PPNames[k]

(* Two partition calls in a row, the first with a remote fun that was       *)
(* eta-expanded, the second with a lambda that was rewritten: $pp0, $pp1    *)
C31_Witness ==
    /\ once.some
    /\ Len(SourceExprs) = 2
    /\ SourceExprs[1].args[1] = RemoteFun(1, RemoteId("erlang", "is_atom", 1))
    /\ SourceExprs[2].args[1].tag = "Lambda"
    /\ SyntheticOfExprs(OnceExprs) = <<"$pp0", "$pp1">>
    /\ OnceExprs[1].args[1].clauses[1].pats[1].n = "$pp0"
    /\ OnceExprs[2].args[1].clauses[2].pats[1].n = "$pp1"

-----------------------------------------------------------------------------
(* converted_ast_bytes on its own: the storage gives the AST of module a as *)
(* up to MaxForms forms of any variant, or bytes that are no AST, or an     *)
(* error                                                                    *)

MaxForms == 3

FormSeqs == UNION { [1..n -> Forms] : n \in 0..MaxForms }

ErlAstBytes ==
    { Ok(to_bytes(forms)) : forms \in FormSeqs }
    \cup { Ok(<<1, 0>>), Err(ParseError), Err(ModuleNotFound("a")) }

ConvertInit ==
    /\ \E erl \in ErlAstBytes :
          env = [m \in Modules |-> IF m = "a" THEN AppModule(erl, "none")
                                   ELSE AppModule(SrcOk, "none")]
    /\ DriverIdle
    /\ ConvertIdle
    /\ ThreadsIdle
    /\ QueryIdle
    /\ CombineIdle
    /\ PreprocessIdle
    /\ SendIdle

(* db.converted_ast_bytes(project_id, m) *)
ConvertedAstBytes(m) ==
    /\ ~converted.some
    /\ converted' = Some([query |-> "converted_ast_bytes", module |-> m,
                          res |-> converted_ast_bytes(env, m)])
    /\ UNCHANGED env
    /\ UNCHANGED nonconvert

ConvertNext == \E m \in Modules : ConvertedAstBytes(m)

ConvertSpec == ConvertInit /\ [][ConvertNext]_vars

KeptVariants == {"Module", "FunDecl", "File", "ElpMetadata", "Behaviour",
                 "EqwalizerNowarnFunction", "EqwalizerUnlimitedRefinement"}

(* kept is forms without the forms of a variant that is not kept *)
RECURSIVE IsKeptOf(_, _)
IsKeptOf(kept, forms) ==
    IF forms = <<>> THEN kept = <<>>
    ELSE IF Head(forms) \in KeptVariants
    THEN kept # <<>> /\ Head(kept) = Head(forms) /\ IsKeptOf(Tail(kept), Tail(forms))
    ELSE IsKeptOf(kept, Tail(forms))

(* C32: the bytes of converted_ast_bytes(M) encode the forms of M's         *)
(* converted AST that are Module, FunDecl, File, ElpMetadata, Behaviour,    *)
(* EqwalizerNowarnFunction or EqwalizerUnlimitedRefinement, in the order    *)
(* they have in the AST, and no other form; if the storage gives an error   *)
(* or the bytes do not convert, that error is returned and no bytes.        *)
C32_NonStubFormsInOrder ==
    (converted.some /\ converted.val.query = "converted_ast_bytes") =>
        LET erl == env[converted.val.module].erl
            ast == IF erl.ok THEN from_bytes(erl.val, FALSE) ELSE erl
            res == converted.val.res
        IN  IF ast.ok
            THEN /\ res.ok
                 /\ from_bytes(res.val, FALSE).ok
                 /\ IsKeptOf(from_bytes(res.val, FALSE).val, ast.val)
            ELSE res = ast

(* An AST of a FunDecl, an Export and a Module: the bytes are those of the  *)
(* FunDecl and the Module, in that order                                    *)
C32_Witness ==
    /\ converted.some
    /\ converted.val.module = "a"
    /\ env["a"].erl = Ok(to_bytes(<<"FunDecl", "Export", "Module">>))
    /\ converted.val.res = Ok(to_bytes(<<"FunDecl", "Module">>))

-----------------------------------------------------------------------------
(* converted_stub on its own: module a with or without a file in the module *)
(* index, with any app data, and with a source AST that differs from the    *)
(* forms of its beam file                                                   *)

StubEnvs ==
    { [erl |-> erl, file |-> file, app_type |-> app_type, ebin |-> ebin,
       beam |-> [readable |-> readable, bytes |-> <<1, 10>>], fault |-> "none"] :
         erl \in {SrcOk, Ok(<<1, 0>>), Err(ParseError), Err(ModuleNotFound("a"))},
         file \in BOOLEAN, app_type \in {"None", "App", "Otp"},
         ebin \in BOOLEAN, readable \in BOOLEAN }

StubInit ==
    /\ \E e \in StubEnvs :
          env = [m \in Modules |-> IF m = "a" THEN e ELSE OtpModule(TRUE, TRUE)]
    /\ DriverIdle
    /\ ConvertIdle
    /\ ThreadsIdle
    /\ QueryIdle
    /\ CombineIdle
    /\ PreprocessIdle
    /\ SendIdle

(* db.converted_stub(project_id, m) *)
ConvertedStub(m) ==
    /\ ~converted.some
    /\ converted' = Some([query |-> "converted_stub", module |-> m,
                          res |-> converted_stub(env, m)])
    /\ UNCHANGED env
    /\ UNCHANGED nonconvert

StubNext == \E m \in Modules : ConvertedStub(m)

StubSpec == StubInit /\ [][StubNext]_vars

(* C33: converted_stub(M) takes the BEAM path exactly when M has a file in  *)
(* the module index and the app of that file is of type Otp.  On the BEAM   *)
(* path it returns ModuleNotFound(M) when there is no ebin directory,       *)
(* BEAMNotFound(path) when the beam file cannot be read, and else the forms *)
(* of the beam file, never those of the source.  In every other case it     *)
(* converts the source AST bytes in stub-only mode, and returns the error   *)
(* of the storage as it is.                                                 *)
C33_BeamPathIffOtp ==
    (converted.some /\ converted.val.query = "converted_stub") =>
        LET m == converted.val.module
            res == converted.val.res
        IN  IF env[m].file /\ env[m].app_type = "Otp"
            THEN IF ~env[m].ebin THEN res = Err(ModuleNotFound(m))
                 ELSE IF ~env[m].beam.readable
                 THEN res = Err(BEAMNotFound(<<"ebin", m, ".beam">>))
                 ELSE res = Ok(<<"Module", "FunSpec">>)
            ELSE IF env[m].erl.ok THEN res = from_bytes(env[m].erl.val, TRUE)
                 ELSE res = env[m].erl

(* An Otp module whose beam file cannot be read, though its source is at    *)
(* hand: BEAMNotFound                                                       *)
C33_Witness ==
    /\ converted.some
    /\ converted.val.query = "converted_stub"
    /\ converted.val.module = "a"
    /\ env["a"].file
    /\ env["a"].app_type = "Otp"
    /\ env["a"].ebin
    /\ env["a"].erl = SrcOk
    /\ converted.val.res = Err(BEAMNotFound(<<"ebin", "a", ".beam">>))

(* A module with Otp app data and no file in the module index: the source   *)
(* is converted                                                             *)
C33_WitnessSource ==
    /\ converted.some
    /\ converted.val.query = "converted_stub"
    /\ converted.val.module = "a"
    /\ ~env["a"].file
    /\ env["a"].app_type = "Otp"
    /\ converted.val.res = Ok(<<"Module", "TypeDecl", "FunDecl">>)

-----------------------------------------------------------------------------
(* The stages of the pipeline in order, and the variant a stage wraps the   *)
(* error of its own checker in                                              *)
Pipeline == <<"converted_stub", "expanded_stub", "contractive_stub", "covariant_stub",
              "transitive_stub", "transitive_stub_bytes">>
WrapperOf == ("expanded_stub" :> "TypeConversionError")
             @@ ("contractive_stub" :> "ContractivityError")
             @@ ("covariant_stub" :> "VarianceCheckError")
             @@ ("transitive_stub" :> "TransitiveCheckError")

CheckerRan(q, m) == \E i \in 1..Len(ran) : ran[i] = <<CheckerOf(q), m>>

(* C34: if a stage failed for module M, every later stage computed for M,   *)
(* transitive_stub_bytes included, has that same error and did not run its  *)
(* checker; and a stage that failed after the stage before it succeeded ran *)
(* its checker and has the checker's error in the variant of that stage.    *)
C34_ErrorPropagates ==
    \A m \in Modules :
        /\ \A k \in 1..5 : \A j \in (k + 1)..6 :
              ( /\ memo[<<Pipeline[k], m>>].some
                /\ ~memo[<<Pipeline[k], m>>].val.ok
                /\ memo[<<Pipeline[j], m>>].some ) =>
                   /\ memo[<<Pipeline[j], m>>].val = memo[<<Pipeline[k], m>>].val
                   /\ ~CheckerRan(Pipeline[j], m)
        /\ \A k \in 2..5 :
              ( /\ memo[<<Pipeline[k], m>>].some
                /\ ~memo[<<Pipeline[k], m>>].val.ok
                /\ memo[<<Pipeline[k - 1], m>>].val.ok ) =>
                   /\ memo[<<Pipeline[k], m>>].val.err.kind = WrapperOf[Pipeline[k]]
                   /\ CheckerRan(Pipeline[k], m)

(* The contractivity check of a fails: the later stages, asked for up to    *)
(* the bytes, all have the ContractivityError, and only the expander and    *)
(* the contractivity checker ran                                            *)
C34_Witness ==
    /\ stack = <<>>
    /\ env["a"].fault = "contractive"
    /\ memo[<<"contractive_stub", "a">>] = Some(Err(ContractivityError(<<"a">>)))
    /\ memo[<<"transitive_stub_bytes", "a">>] = Some(Err(ContractivityError(<<"a">>)))
    /\ memo[<<"transitive_stub", "a">>] = Some(Err(ContractivityError(<<"a">>)))
    /\ ran = << <<"StubExpander", "a">>, <<"StubContractivityChecker", "a">> >>

-----------------------------------------------------------------------------
(* Sessions over modules whose byte buffers are about as long as the        *)
(* greatest u32                                                             *)

WideLens == {u32_MAX - 1, u32_MAX, u32_MAX + 1}
WideModule(n, code) == AppModule(Ok([i \in 1..n |-> code]), "none")

WideInit ==
    /\ \E n \in WideLens, code \in {FormCode["FunDecl"], FormCode["TypeDecl"]} :
           env = [m \in Modules |-> IF m = "a" THEN WideModule(n, code)
                                    ELSE AppModule(SrcOk, "none")]
    /\ DriverIdle
    /\ ConvertIdle
    /\ ThreadsIdle
    /\ QueryIdle
    /\ CombineIdle
    /\ PreprocessIdle
    /\ SendIdle

WideSpec == WideInit /\ [][LiveNext]_vars

(* C35: the ast_bytes_len of a GetAstBytesReply that announces bytes is     *)
(* the exact number of the bytes that follow it and fits u32; for a buffer  *)
(* longer than the greatest u32 the sub-loop sends neither a reply nor      *)
(* bytes and ends with an error                                             *)
C35_LengthFitsOrNothingSent ==
    [][ /\ ( /\ pc = "sub_recv"
             /\ pc' # pc
             /\ AnsweringGetAstBytes'
             /\ RequestAst'.ok
             /\ Len(RequestAst'.val) > u32_MAX )
           => /\ pc' \notin SubPcs
              /\ Sends(io') = <<>>
              /\ Writes(io') = <<>>
              /\ diags_memo'[module].some
              /\ diags_memo'[module].val.tag = "Error"
        /\ ( /\ pc = "sub_send_bytes"
             /\ pc' = "sub_check" )
           => /\ AnsweringGetAstBytes
              /\ Len(RequestAst.val) <= u32_MAX
              /\ Sends(io) = <<Sent(GetAstBytesReply(Len(RequestAst.val)))>>
              /\ Written(Writes(io')) = RequestAst.val
      ]_vars

C35_Witness ==
    /\ pc = "returned"
    /\ AnsweringGetAstBytes
    /\ RequestAst.ok
    /\ Len(RequestAst.val) > u32_MAX
    /\ Sends(io) = <<>>
    /\ result.some
    /\ result.val.tag = "Error"

C35_WitnessGreatest ==
    /\ pc = "sub_check"
    /\ AnsweringGetAstBytes
    /\ RequestAst.ok
    /\ Len(RequestAst.val) = u32_MAX
    /\ Sends(io) = <<Sent(GetAstBytesReply(u32_MAX))>>
    /\ Written(Writes(io)) = RequestAst.val

(* C36: whenever the top-level loop is about to receive, the accumulated    *)
(* result is of the Diagnostics variant; combine is only ever called on a   *)
(* Diagnostics receiver; and the value returned on a top-level Done is of   *)
(* the Diagnostics variant                                                  *)
C36_AccumulatorIsDiagnostics ==
    [][ /\ pc \in {"top_check", "top_recv"} => diagnostics.tag = "Diagnostics"
        /\ ( \/ SubLoopReturnsToDriver
             \/ \E m \in Modules : EnteredModule(m) /\ pc' \notin SubPcs )
           => /\ diagnostics.tag = "Diagnostics"
              /\ diags_memo'[module'].some
              /\ diagnostics' = combine(diagnostics, diags_memo'[module'].val)
        /\ ( /\ pc = "top_recv"
             /\ pc' = "returned"
             /\ io'[1].op = "recv"
             /\ io'[1].msg.tag = "Done" )
           => /\ result'.some
              /\ result'.val = diagnostics
              /\ result'.val.tag = "Diagnostics"
      ]_vars

C36_Witness ==
    /\ pc = "returned"
    /\ io # <<>>
    /\ io[1].op = "recv"
    /\ io[1].msg.tag = "Done"
    /\ Len(io) = 1
    /\ result.some
    /\ result.val.tag = "Diagnostics"
    /\ result.val.errors # EmptyMap

-----------------------------------------------------------------------------
(* Two typecheck sessions at once on one database.  Each session has its    *)
(* own process and handle; the registry and the memo of module_diagnostics  *)
(* are the database's and are shared.                                       *)

Sessions == {1, 2}
HandleOf(s) == IF s = 1 THEN "handle1" ELSE "handle2"
ThreadAt(p, m, h) == [pc |-> p, module |-> m, using |-> h]

(* DbApi::set_module_ipc_handle: one map from module name to handle *)
set_module_ipc_handle(reg, m, handle) ==
    [reg EXCEPT ![m] = IF handle.some THEN handle.val ELSE "none"]

RaceInit ==
    /\ env = [m \in Modules |-> AppModule(SrcOk, "none")]
    /\ DriverIdle
    /\ ConvertIdle
    /\ QueryIdle
    /\ CombineIdle
    /\ PreprocessIdle
    /\ SendIdle
    /\ threads = [s \in Sessions |-> ThreadAt("top_recv", "", "none")]

(* A thread is computing module_diagnostics(m): others that ask for it wait *)
InProgress(m) ==
    \E t \in Sessions : threads[t].module = m /\ threads[t].pc \in {"lookup", "sub_loop"}

(* do_typecheck, lines 312-317: session s receives EnteringModule{m} and    *)
(* installs its handle for m                                                *)
SessionEntering(s, m) ==
    /\ threads[s].pc = "top_recv"
    /\ threads' = [threads EXCEPT ![s] = ThreadAt("call", m, "none")]
    /\ registry' = set_module_ipc_handle(registry, m, Some(HandleOf(s)))
    /\ UNCHANGED diags_memo
    /\ UNCHANGED nonthreads

(* do_typecheck, line 318: the memoized value, or the body of the query *)
SessionQuery(s) ==
    /\ threads[s].pc = "call"
    /\ IF diags_memo[threads[s].module].some
       THEN threads' = [threads EXCEPT ![s].pc = "uninstall"]
       ELSE /\ ~InProgress(threads[s].module)
            /\ threads' = [threads EXCEPT ![s].pc = "lookup"]
    /\ UNCHANGED <<registry, diags_memo>>
    /\ UNCHANGED nonthreads

(* get_module_diagnostics, lines 372-378 *)
SessionLookup(s) ==
    /\ threads[s].pc = "lookup"
    /\ LET m == threads[s].module
           h == LookupHandle(registry, m)
       IN  IF h.ok
           THEN /\ threads' = [threads EXCEPT ![s].pc = "sub_loop", ![s].using = h.val]
                /\ UNCHANGED diags_memo
           ELSE /\ threads' = [threads EXCEPT ![s].pc = "uninstall", ![s].using = "missing"]
                /\ diags_memo' = [diags_memo EXCEPT ![m] = Some(module_diagnostics(m, h))]
    /\ UNCHANGED registry
    /\ UNCHANGED nonthreads

(* get_module_diagnostics, lines 379-475, on the handle looked up, and      *)
(* module_diagnostics, lines 355-364                                        *)
SessionSubLoop(s, res) ==
    /\ threads[s].pc = "sub_loop"
    /\ threads' = [threads EXCEPT ![s].pc = "uninstall"]
    /\ diags_memo' = [diags_memo EXCEPT
                         ![threads[s].module] = Some(module_diagnostics(threads[s].module, res))]
    /\ UNCHANGED registry
    /\ UNCHANGED nonthreads

(* do_typecheck, lines 319-327 *)
SessionUninstall(s) ==
    /\ threads[s].pc = "uninstall"
    /\ registry' = set_module_ipc_handle(registry, threads[s].module, None)
    /\ threads' = [threads EXCEPT ![s] =
                      IF IsTerminal(diags_memo[threads[s].module].val)
                      THEN ThreadAt("returned", "", "none")
                      ELSE ThreadAt("top_recv", "", "none")]
    /\ UNCHANGED diags_memo
    /\ UNCHANGED nonthreads

(* do_typecheck, lines 329-331 *)
SessionDone(s) ==
    /\ threads[s].pc = "top_recv"
    /\ threads' = [threads EXCEPT ![s].pc = "returned"]
    /\ UNCHANGED <<registry, diags_memo>>
    /\ UNCHANGED nonthreads

RaceNext ==
    \/ \E s \in Sessions, m \in Modules : SessionEntering(s, m)
    \/ \E s \in Sessions : SessionQuery(s)
    \/ \E s \in Sessions : SessionLookup(s)
    \/ \E s \in Sessions :
         \E res \in {Ok(DiagDefault), Err(<< <<"io::Error">> >>)} : SessionSubLoop(s, res)
    \/ \E s \in Sessions : SessionUninstall(s)
    \/ \E s \in Sessions : SessionDone(s)

RaceSpec == RaceInit /\ [][RaceNext]_vars

(* C37: when two sessions run at once on one database and service the same  *)
(* module, the sub-loop of each session uses only the handle of its own     *)
(* session, and no session finds its handle gone                            *)
C37_OwnHandleOnly ==
    \A s \in DOMAIN threads : threads[s].using \in {"none", HandleOf(s)}

(* The session that installed last lends its handle to the sub-loop of the  *)
(* other, and waits for the other's computation                             *)
C37_ForeignHandle ==
    \E s, t \in DOMAIN threads :
        /\ s # t
        /\ threads[s].pc = "sub_loop"
        /\ threads[s].using = HandleOf(t)
        /\ threads[t].pc = "call"
        /\ threads[t].module = threads[s].module

(* A sub-loop uses a foreign handle only when both sessions service the     *)
(* same module, and no lookup finds the entry gone                          *)
C37_ForeignOnlyWhenShared ==
    \A s \in DOMAIN threads :
        /\ threads[s].using # "missing"
        /\ (threads[s].pc = "sub_loop" /\ threads[s].using # HandleOf(s))
           => \E t \in DOMAIN threads :
                  /\ t # s
                  /\ threads[t].module = threads[s].module
                  /\ threads[t].pc = "call"

(* C38: when a single-clause lambda passed to lists:partition/2 is          *)
(* rewritten, every guard the clause had is still a guard of the first      *)
(* clause of the rewritten lambda                                           *)
C38_GuardsRetained ==
    once.some =>
        \A i \in 1..Len(SourceExprs) :
            ( /\ PartitionOfLambda(SourceExprs[i])
              /\ OnceExprs[i].tag = "RemoteCall"
              /\ OnceExprs[i].args[1] # SourceExprs[i].args[1] )
            => \A k \in 1..Len(SourceExprs[i].args[1].clauses[1].guards) :
                   \E j \in 1..Len(OnceExprs[i].args[1].clauses[1].guards) :
                       OnceExprs[i].args[1].clauses[1].guards[j]
                           = SourceExprs[i].args[1].clauses[1].guards[k]

(* fun(X) when X -> is_atom(X) end is rewritten, and the first clause of    *)
(* the result has the guard is_atom(X) alone                                *)
C38_GuardDropped ==
    /\ once.some
    /\ \E i \in 1..Len(SourceExprs) :
           /\ PartitionOfLambda(SourceExprs[i])
           /\ SourceExprs[i].args[1].clauses[1].guards = <<Guard(<<TestVar(1, "X")>>)>>
           /\ IsRewriteOf(OnceExprs[i].args[1], SourceExprs[i].args[1])
           /\ Len(OnceExprs[i].args[1].clauses[1].guards) = 1
           /\ OnceExprs[i].args[1].clauses[1].guards[1] # Guard(<<TestVar(1, "X")>>)

(* A lists:partition/2 call whose function argument the preprocessor would  *)
(* rewrite                                                                  *)
Eligible(e) ==
    /\ e.tag = "RemoteCall"
    /\ e.id = ListsPartition
    /\ Len(e.args) = 2
    /\ preprocess_lists_partition_arg_fun(0, e.location, e.args[1]).expr # e.args[1]

(* The eligible calls of an expression: with inside, those in the arguments *)
(* of partition calls too; without, those the walk of transform_expr visits *)
RECURSIVE EligibleOfExpr(_, _)
RECURSIVE EligibleOfExprs(_, _)
RECURSIVE EligibleOfClauses(_, _)

EligibleOfExprs(exprs, inside) ==
    IF exprs = <<>> THEN <<>>
    ELSE EligibleOfExpr(Head(exprs), inside) \o EligibleOfExprs(Tail(exprs), inside)

EligibleOfClauses(clauses, inside) ==
    IF clauses = <<>> THEN <<>>
    ELSE EligibleOfExprs(Head(clauses).body.exprs, inside)
         \o EligibleOfClauses(Tail(clauses), inside)

EligibleOfExpr(expr, inside) ==
    CASE expr.tag = "RemoteCall" /\ expr.id = ListsPartition ->
            (IF Eligible(expr) THEN <<expr>> ELSE <<>>)
            \o (IF inside THEN EligibleOfExprs(expr.args, inside) ELSE <<>>)
      [] expr.tag = "Lambda" -> EligibleOfClauses(expr.clauses, inside)
      [] expr.tag = "Block" -> EligibleOfExprs(expr.body.exprs, inside)
      [] expr.tag = "Tuple" -> EligibleOfExprs(expr.elems, inside)
      [] expr.tag \in {"LocalCall", "RemoteCall"} -> EligibleOfExprs(expr.args, inside)
      [] expr.tag = "UnOp" -> EligibleOfExpr(expr.arg, inside)
      [] expr.tag = "BinOp" ->
            EligibleOfExpr(expr.arg_1, inside) \o EligibleOfExpr(expr.arg_2, inside)
      [] OTHER -> <<>>

(* C39: after preprocess no eligible lists:partition/2 call is left in the  *)
(* AST, at any nesting depth, the list argument and the function argument   *)
(* of another partition call included                                       *)
C39_RewrittenAtAnyDepth ==
    once.some => EligibleOfExprs(OnceExprs, TRUE) = <<>>

(* lists:partition(F, lists:partition(fun erlang:is_atom/1, L)) keeps the   *)
(* inner reference, and so does a partition call in the body of a lambda    *)
(* that is the function argument of another                                 *)
C39_InnerCallKept ==
    /\ once.some
    /\ \E i \in 1..Len(OnceExprs) :
           /\ OnceExprs[i].tag = "RemoteCall"
           /\ OnceExprs[i].id = ListsPartition
           /\ Eligible(OnceExprs[i].args[2])
           /\ OnceExprs[i].args[2] = SourceExprs[i].args[2]

C39_InnerCallKeptInFun ==
    /\ once.some
    /\ \E i \in 1..Len(OnceExprs) :
           /\ OnceExprs[i].tag = "RemoteCall"
           /\ OnceExprs[i].id = ListsPartition
           /\ OnceExprs[i].args[1].tag = "Lambda"
           /\ EligibleOfClauses(OnceExprs[i].args[1].clauses, TRUE) # <<>>

(* Every eligible call outside the arguments of a partition call is         *)
(* rewritten, at any depth                                                  *)
C39_RewrittenWhereWalked ==
    once.some =>
        /\ EligibleOfExprs(OnceExprs, FALSE) = <<>>
        /\ EligibleOfExprs(SourceExprs, FALSE) # <<>> => OnceExprs # SourceExprs

(* C40: a session cannot deadlock on its own handle: where the top-level    *)
(* loop locks the handle, for one receive or one send, the lock is free,    *)
(* and it is free when the sub-loop of a module is invoked and takes it;    *)
(* the sub-loop holds it from then until it returns or unwinds and takes it *)
(* no second time                                                           *)
C40_NoSelfDeadlock ==
    [][ /\ pc \in {"top_recv", "top_exit_send"} => ~lock
        /\ (pc \notin SubPcs /\ pc' \in SubPcs) => (~lock /\ lock')
        /\ (pc \in SubPcs /\ pc' \in SubPcs) => (lock /\ lock')
        /\ (pc \in SubPcs /\ pc' \notin SubPcs) => ~lock'
      ]_vars

(* The sub-loop of a module has run and returned, and the top-level loop    *)
(* is about to lock the handle for ELPExitingModule                         *)
C40_Witness ==
    /\ pc = "top_exit_send"
    /\ ~lock
    /\ caller = "typecheck"
    /\ diags_memo[module].some
    /\ io # <<>>
    /\ io[1].op = "recv"
    /\ io[1].msg.tag = "Done"

====
